---- MODULE Spec2Model ----
(***************************************************************************)
(* State-machine model of the ZDSPGC student-portal backend: the Express   *)
(* routes of server/routes.ts (database-backed variant) over the           *)
(* DatabaseStorage of server/storage.ts and the tables of shared/schema.ts.*)
(*                                                                         *)
(* Conventions.                                                            *)
(*  - A table is a function from row id to row record; a storage lookup     *)
(*    returns the set of matching rows ({} is JavaScript's undefined).      *)
(*  - randomUUID() is a fresh value: a per-table counter in seq. Row ids    *)
(*    and tokens are naturals >= 1; Null (0) is JavaScript's null.          *)
(*  - A request body is a record; a field that is not in its DOMAIN is      *)
(*    undefined, a field equal to "" is the empty string.                  *)
(*  - bcrypt.hash(p) is the tagged value Hash(p), never p itself.           *)
(*  - Every route action is the whole request: middleware, handler and      *)
(*    every storage call, and it records request and response in resp.      *)
(*  - pending holds the handlers that are suspended at an await, for the   *)
(*    specifications of overlapping requests; boot is the module state of   *)
(*    the serverless entry point; screen is the state of the two schedule   *)
(*    screens of the client.                                                *)
(***************************************************************************)
EXTENDS Integers, Sequences, FiniteSets, TLC

VARIABLES users, students, sections, grades, scheduleItems, announcements,
          sessions, now, seq, resp, pending, boot, screen

vars == <<users, students, sections, grades, scheduleItems, announcements,
          sessions, now, seq, resp, pending, boot, screen>>

tables == <<users, students, sections, grades, scheduleItems, announcements>>

(***************************************************************************)
(* Program constants and bounds of the model                               *)
(***************************************************************************)
TOKEN_TTL_MS == 86400000

MinPasswordLength == 8

\* The clock advances in steps of one session lifetime, so that a state with
\* now = expiresAt (still valid) and one with now > expiresAt both occur.
TickMs == TOKEN_TTL_MS

MaxTicks == 2
MaxTokens == 2
MaxStudents == 2
MaxGrades == 2
MaxSections == 1
MaxScheduleItems == 1
MaxAnnouncements == 1

Null == 0

\* The empty string as the token part of the header "Bearer ".
EmptyToken == 0

\* A token no randomUUID() call ever returns (a client's guess).
ForgedToken == MaxTokens + 1

(***************************************************************************)
(* Helpers                                                                 *)
(***************************************************************************)
Has(b, f) == f \in DOMAIN b

\* JavaScript truthiness of a string-valued body field: undefined and "" are falsy.
Truthy(b, f) == Has(b, f) /\ b[f] # ""

\* body.f || d
OrDefault(b, f, d) == IF Truthy(b, f) THEN b[f] ELSE d

\* Faulty variant: the row is sent as stored.
MutOmitPassword(row) == row

\* const { password: _pw, ...rest } = row
OmitPassword(row) == [f \in DOMAIN row \ {"password"} |-> row[f]]

\* bcrypt.hash / bcrypt.hashSync: a one-way tagged value.
Hash(p) == <<"bcrypt", p>>

\* Faulty variant: every password matches.
MutCompare(p, h) == TRUE

\* bcrypt.compare(plain, hash)
Compare(p, h) == h = Hash(p)

\* drizzle's update(...).set(data): columns whose value is undefined are skipped.
Merge(row, data) == [f \in DOMAIN row |-> IF f \in DOMAIN data THEN data[f] ELSE row[f]]

\* Restriction of a record to the fields that are defined in the body.
Pick(b, fs) == [f \in (DOMAIN b) \cap fs |-> b[f]]

Row(S) == CHOOSE r \in S : TRUE

Put(tbl, id, row) == [i \in DOMAIN tbl \cup {id} |-> IF i = id THEN row ELSE tbl[i]]

Drop(tbl, ids) == [i \in DOMAIN tbl \ ids |-> tbl[i]]

(***************************************************************************)
(* DatabaseStorage (server/storage.ts)                                     *)
(***************************************************************************)
getAdminByUsername(username) == {users[i] : i \in {j \in DOMAIN users : users[j].username = username}}

getAdminById(id) == {users[i] : i \in {j \in DOMAIN users : j = id}}

getAllStudents == {students[i] : i \in DOMAIN students}

\* The reads behind the student routes take the table they select from.
getStudentById(tbl, id) == {tbl[i] : i \in {j \in DOMAIN tbl : j = id}}

\* Faulty variant: the lookup compares the wrong column.
MutGetStudentByStudentId(studentId) ==
    {students[i] : i \in {j \in DOMAIN students : students[j].lastName = studentId}}

getStudentByStudentId(studentId) ==
    {students[i] : i \in {j \in DOMAIN students : students[j].studentId = studentId}}

\* updateStudent: the table after UPDATE ... WHERE id = id (no row: unchanged).
updateStudent(tbl, id, data) ==
    [i \in DOMAIN tbl |-> IF i = id THEN Merge(tbl[i], data) ELSE tbl[i]]

\* Faulty variant: the studentId filter is dropped.
MutGetAllGrades(tbl, studentId) == {tbl[i] : i \in DOMAIN tbl}

\* getAllGrades(studentId?): every row when no studentId is given.
getAllGrades(tbl, studentId) ==
    IF studentId # Null
    THEN {tbl[i] : i \in {j \in DOMAIN tbl : tbl[j].studentId = studentId}}
    ELSE {tbl[i] : i \in DOMAIN tbl}

getAllScheduleItems(tbl) == {tbl[i] : i \in DOMAIN tbl}

getAllAnnouncements == {announcements[i] : i \in DOMAIN announcements}

createSession(tbl, token, userId, role, expiresAt) ==
    Put(tbl, token, [token |-> token, userId |-> userId, role |-> role, expiresAt |-> expiresAt])

storage_getSession(token) == {sessions[t] : t \in {u \in DOMAIN sessions : u = token}}

\* Faulty variant: logout leaves the row in place.
MutDeleteSession(tbl, token) == tbl

deleteSession(tbl, token) == Drop(tbl, {token})

\* Faulty variant: a session that expires at this very instant is removed too.
MutDeleteExpiredSessions(tbl, t) == Drop(tbl, {k \in DOMAIN tbl : tbl[k].expiresAt <= t})

deleteExpiredSessions(tbl, t) == Drop(tbl, {k \in DOMAIN tbl : tbl[k].expiresAt < t})

(***************************************************************************)
(* Auth middleware (server/routes.ts)                                      *)
(***************************************************************************)
\* The Authorization header: [scheme |-> "none"] is no header; otherwise the
\* header is scheme \o " " \o token. The result is {} for null.
extractToken(hdr) ==
    IF hdr.scheme = "none" \/ hdr.scheme # "Bearer" THEN {} ELSE {hdr.tok}

\* Faulty variant: expiresAt is never compared with the clock.
MutGetSessionNoExpiry(hdr) ==
    LET token == extractToken(hdr) IN
    IF token = {} \/ token = {EmptyToken} THEN [session |-> {}, sessions |-> sessions]
    ELSE [session |-> storage_getSession(Row(token)), sessions |-> sessions]

\* Faulty variant: a successful lookup extends the session (sliding expiry).
MutGetSessionSliding(hdr) ==
    LET token == extractToken(hdr) IN
    IF token = {} \/ token = {EmptyToken} THEN [session |-> {}, sessions |-> sessions]
    ELSE LET session == storage_getSession(Row(token)) IN
         IF session = {} THEN [session |-> {}, sessions |-> sessions]
         ELSE IF Row(session).expiresAt < now
              THEN [session |-> {}, sessions |-> deleteSession(sessions, Row(token))]
              ELSE [session |-> session,
                    sessions |-> [sessions EXCEPT ![Row(token)].expiresAt = now + TOKEN_TTL_MS]]

\* getSession(req): the session found ({} for null) and the sessions table
\* after the call (an expired row is deleted).
getSession(hdr) ==
    LET token == extractToken(hdr) IN
    IF token = {} \/ token = {EmptyToken} THEN [session |-> {}, sessions |-> sessions]
    ELSE LET session == storage_getSession(Row(token)) IN
         IF session = {} THEN [session |-> {}, sessions |-> sessions]
         ELSE IF Row(session).expiresAt < now
              THEN [session |-> {}, sessions |-> deleteSession(sessions, Row(token))]
              ELSE [session |-> session, sessions |-> sessions]

\* Faulty variant: any live session passes the admin guard.
MutRequireAdminToken(hdr) ==
    LET g == getSession(hdr) IN
    IF g.session = {} THEN [status |-> 401, sessions |-> g.sessions, uid |-> Null]
    ELSE [status |-> 0, sessions |-> g.sessions, uid |-> Null]

\* The outcome of a guard: status 0 stands for next().
requireAdminToken(hdr) ==
    LET g == getSession(hdr) IN
    IF g.session = {} THEN [status |-> 401, sessions |-> g.sessions, uid |-> Null]
    ELSE IF Row(g.session).role # "admin"
         THEN [status |-> 403, sessions |-> g.sessions, uid |-> Null]
         ELSE [status |-> 0, sessions |-> g.sessions, uid |-> Null]

\* Faulty variant: any live session passes the student guard.
MutRequireStudentToken(hdr) ==
    LET g == getSession(hdr) IN
    IF g.session = {} THEN [status |-> 401, sessions |-> g.sessions, uid |-> Null]
    ELSE [status |-> 0, sessions |-> g.sessions, uid |-> Row(g.session).userId]

requireStudentToken(hdr) ==
    LET g == getSession(hdr) IN
    IF g.session = {} THEN [status |-> 401, sessions |-> g.sessions, uid |-> Null]
    ELSE IF Row(g.session).role # "student"
         THEN [status |-> 403, sessions |-> g.sessions, uid |-> Null]
         ELSE [status |-> 0, sessions |-> g.sessions, uid |-> Row(g.session).userId]

\* The record of a request and its response. ran: the route handler was
\* entered; uid: req.studentUserId as the handler saw it; out: the JSON body;
\* evicted: the guard deleted the presented session row (lazy expiry).
Reply(route, hdr, id, body, status, ran, uid, out) ==
    [route |-> route, hdr |-> hdr, id |-> id, body |-> body,
     status |-> status, ran |-> ran, uid |-> uid, out |-> out, evicted |-> FALSE]

Message(m) == [message |-> m]

\* A guard that did not call next(): its response, and the lazy expiry it did.
Rejected(route, hdr, id, body, g) ==
    /\ resp' = [Reply(route, hdr, id, body, g.status, FALSE, Null,
                      Message(IF g.status = 401 THEN "Unauthorized" ELSE "Forbidden"))
                    EXCEPT !.evicted = (g.sessions # sessions)]
    /\ sessions' = g.sessions
    /\ UNCHANGED <<tables, now, pending, boot, screen, seq>>


NoHeader == [scheme |-> "none", tok |-> EmptyToken]

NoBody == <<>>

(***************************************************************************)
(* Clock and background timer                                              *)
(***************************************************************************)
\* Date.now() advances.
Tick ==
    /\ now < MaxTicks * TickMs
    /\ now' = now + TickMs
    /\ UNCHANGED <<pending, boot, screen>>
    /\ UNCHANGED <<tables, sessions, seq, resp>>

\* setInterval(() => storage.deleteExpiredSessions(), 60 * 60 * 1000)
Sweep ==
    /\ sessions' = deleteExpiredSessions(sessions, now)
    /\ UNCHANGED <<tables, now, pending, boot, screen, seq, resp>>

(***************************************************************************)
(* POST /api/auth/login, POST /api/auth/logout                             *)
(***************************************************************************)
LoginRoute == "POST /api/auth/login"

\* Faulty variant: a student login takes its role from the request body.
MutLoginOutcomeRoleFromBody(body) ==
    LET admin == getAdminByUsername(body.username)
        student == getStudentByStudentId(body.username)
    IN  IF admin # {} /\ Compare(body.password, Row(admin).password)
        THEN [role |-> "admin", user |-> admin]
        ELSE IF student # {} /\ Compare(body.password, Row(student).password)
             THEN [role |-> IF Has(body, "role") THEN body.role ELSE "student",
                   user |-> student]
             ELSE [role |-> "none", user |-> {}]

\* Faulty variant: an admin row with the username stops the search.
MutLoginOutcomeNoFallThrough(body) ==
    LET admin == getAdminByUsername(body.username)
        student == getStudentByStudentId(body.username)
    IN  IF admin # {}
        THEN IF Compare(body.password, Row(admin).password)
             THEN [role |-> "admin", user |-> admin] ELSE [role |-> "none", user |-> {}]
        ELSE IF student # {} /\ Compare(body.password, Row(student).password)
             THEN [role |-> "student", user |-> student]
             ELSE [role |-> "none", user |-> {}]

\* The login handler's decision, with its table lookups made explicit.
LoginOutcome(body) ==
    LET admin == getAdminByUsername(body.username)
        student == getStudentByStudentId(body.username)
    IN  IF admin # {} /\ Compare(body.password, Row(admin).password)
        THEN [role |-> "admin", user |-> admin]
        ELSE IF student # {} /\ Compare(body.password, Row(student).password)
             THEN [role |-> "student", user |-> student]
             ELSE [role |-> "none", user |-> {}]

Login(body) ==
    IF ~Truthy(body, "username") \/ ~Truthy(body, "password")
    THEN /\ resp' = Reply(LoginRoute, NoHeader, Null, body, 400, TRUE, Null,
                          Message("Username and password required"))
         /\ UNCHANGED <<tables, sessions, now, pending, boot, screen, seq>>
    ELSE LET o == LoginOutcome(body) IN
         IF o.role = "none"
         THEN /\ resp' = Reply(LoginRoute, NoHeader, Null, body, 401, TRUE, Null,
                               Message("Invalid credentials"))
              /\ UNCHANGED <<tables, sessions, now, pending, boot, screen, seq>>
         ELSE LET token == seq.token IN
              /\ token <= MaxTokens
              /\ sessions' = createSession(sessions, token, Row(o.user).id, o.role,
                                           now + TOKEN_TTL_MS)
              /\ seq' = [seq EXCEPT !.token = token + 1]
              /\ resp' = Reply(LoginRoute, NoHeader, Null, body, 200, TRUE, Null,
                               [token |-> token, role |-> o.role,
                                user |-> OmitPassword(Row(o.user))])
              /\ UNCHANGED <<tables, now, pending, boot, screen>>

LogoutRoute == "POST /api/auth/logout"

Logout(hdr) ==
    LET token == extractToken(hdr) IN
    /\ sessions' = IF token # {} /\ token # {EmptyToken}
                   THEN deleteSession(sessions, Row(token)) ELSE sessions
    /\ resp' = Reply(LogoutRoute, hdr, Null, NoBody, 200, TRUE, Null, Message("Logged out"))
    /\ UNCHANGED <<tables, now, pending, boot, screen, seq>>

(***************************************************************************)
(* Read routes                                                             *)
(***************************************************************************)
\* A guarded route whose handler only reads: out is the handler's JSON.
AdminRead(route, hdr, id, status, out) ==
    LET g == requireAdminToken(hdr) IN
    IF g.status # 0 THEN Rejected(route, hdr, id, NoBody, g)
    ELSE /\ resp' = Reply(route, hdr, id, NoBody, status, TRUE, Null, out)
         /\ sessions' = g.sessions
         /\ UNCHANGED <<tables, now, pending, boot, screen, seq>>

\* GET /api/admin/stats
AdminStats(hdr) ==
    AdminRead("GET /api/admin/stats", hdr, Null, 200,
              [totalStudents |-> Cardinality(getAllStudents),
               totalAnnouncements |-> Cardinality(getAllAnnouncements),
               totalSchedules |-> Cardinality(getAllScheduleItems(scheduleItems)),
               totalGrades |-> Cardinality(getAllGrades(grades, Null)),
               courses |-> Cardinality({s.course : s \in getAllStudents})])

\* GET /api/admin/students
AdminListStudents(hdr) ==
    AdminRead("GET /api/admin/students", hdr, Null, 200,
              [list |-> {OmitPassword(s) : s \in getAllStudents}])

\* GET /api/admin/sections/:id/students
AdminSectionStudents(hdr, id) ==
    AdminRead("GET /api/admin/sections/:id/students", hdr, id, 200,
              [list |-> {OmitPassword(s) : s \in {x \in getAllStudents : x.sectionId = id}}])

\* GET /api/admin/grades?studentId=xxx (id is the query parameter, Null when absent)
AdminListGrades(hdr, id) ==
    AdminRead("GET /api/admin/grades", hdr, id, 200, [list |-> getAllGrades(grades, id)])

(***************************************************************************)
(* parseFloat on grade text. A grade is a sequence of one-character strings;*)
(* the result is NaN or the exact decimal (-1)^neg * mant / 10^scale.       *)
(* Leading blanks, an optional sign, digits and an optional fraction are    *)
(* read; whatever follows is ignored (no exponent occurs in the alphabet).  *)
(***************************************************************************)
Digits == {"0", "1", "2", "3", "4", "5", "6", "7", "8", "9"}

DigitVal == [c \in Digits |->
    CASE c = "0" -> 0 [] c = "1" -> 1 [] c = "2" -> 2 [] c = "3" -> 3 [] c = "4" -> 4
      [] c = "5" -> 5 [] c = "6" -> 6 [] c = "7" -> 7 [] c = "8" -> 8 [] c = "9" -> 9]

RECURSIVE SkipBlanks(_)
SkipBlanks(s) == IF s # <<>> /\ Head(s) = " " THEN SkipBlanks(Tail(s)) ELSE s

RECURSIVE DigitPrefixLen(_)
DigitPrefixLen(s) ==
    IF s = <<>> \/ Head(s) \notin Digits THEN 0 ELSE 1 + DigitPrefixLen(Tail(s))

RECURSIVE DigitsValue(_, _)
DigitsValue(s, acc) ==
    IF s = <<>> THEN acc ELSE DigitsValue(Tail(s), acc * 10 + DigitVal[Head(s)])

RECURSIVE Pow10(_)
Pow10(k) == IF k = 0 THEN 1 ELSE 10 * Pow10(k - 1)

NaN == [nan |-> TRUE, neg |-> FALSE, mant |-> 0, scale |-> 0]

parseFloat(text) ==
    LET s0 == SkipBlanks(text)
        signed == s0 # <<>> /\ Head(s0) \in {"-", "+"}
        s1 == IF signed THEN Tail(s0) ELSE s0
        n == DigitPrefixLen(s1)
        rest == SubSeq(s1, n + 1, Len(s1))
        m == IF rest # <<>> /\ Head(rest) = "." THEN DigitPrefixLen(Tail(rest)) ELSE 0
        digits == SubSeq(s1, 1, n) \o (IF m > 0 THEN SubSeq(rest, 2, m + 1) ELSE <<>>)
    IN  IF n = 0 /\ m = 0 THEN NaN
        ELSE [nan |-> FALSE, neg |-> signed /\ Head(s0) = "-",
              mant |-> DigitsValue(digits, 0), scale |-> m]

\* The signed numerator of x over 10^scale.
Signed(x) == IF x.neg THEN 0 - x.mant ELSE x.mant

\* x <= 3.0 in JavaScript: false for NaN.
LessEqThree(x) == ~x.nan /\ Signed(x) <= 3 * Pow10(x.scale)

\* parseFloat(body.grade) <= 3.0 ? "Passed" : "Failed"
RemarksOf(text) == IF LessEqThree(parseFloat(text)) THEN "Passed" ELSE "Failed"

\* JavaScript truthiness of a grade text and of an id.
TruthyText(b, f) == Has(b, f) /\ b[f] # <<>>

TruthyId(b, f) == Has(b, f) /\ b[f] # Null

(***************************************************************************)
(* Student read routes                                                     *)
(***************************************************************************)
\* A student read behind the guard outcome g.
StudentRead(route, hdr, g, status, out) ==
    IF g.status # 0 THEN Rejected(route, hdr, Null, NoBody, g)
    ELSE /\ resp' = Reply(route, hdr, Null, NoBody, status, TRUE, g.uid, out)
         /\ sessions' = g.sessions
         /\ UNCHANGED <<tables, now, pending, boot, screen, seq>>

\* GET /api/student/profile
ProfileStatus(st, uid) == IF getStudentById(st, uid) = {} THEN 404 ELSE 200

ProfileOut(st, uid) ==
    IF getStudentById(st, uid) = {} THEN Message("Student not found")
    ELSE [row |-> OmitPassword(Row(getStudentById(st, uid)))]

StudentProfile(hdr) ==
    LET g == requireStudentToken(hdr) IN
    StudentRead("GET /api/student/profile", hdr, g,
                ProfileStatus(students, g.uid), ProfileOut(students, g.uid))

\* GET /api/student/grades
StudentGradesOut(gr, uid) == [list |-> getAllGrades(gr, uid)]

StudentGrades(hdr) ==
    LET g == requireStudentToken(hdr) IN
    StudentRead("GET /api/student/grades", hdr, g, 200, StudentGradesOut(grades, g.uid))

\* GET /api/student/schedule
\* Faulty variant: the subjects of every student's grades are taken as enrolled.
MutStudentScheduleOut(gr, sch, uid) ==
    LET enrolledSubjects == {gr[i].subjectCode : i \in DOMAIN gr} IN
    [list |-> {s \in getAllScheduleItems(sch) : s.subjectCode \in enrolledSubjects}]

StudentScheduleOut(gr, sch, uid) ==
    LET enrolledSubjects == {g.subjectCode : g \in getAllGrades(gr, uid)} IN
    [list |-> {s \in getAllScheduleItems(sch) : s.subjectCode \in enrolledSubjects}]

StudentSchedule(hdr) ==
    LET g == requireStudentToken(hdr) IN
    StudentRead("GET /api/student/schedule", hdr, g, 200,
                StudentScheduleOut(grades, scheduleItems, g.uid))

\* GET /api/student/announcements
StudentAnnouncementsOut == [list |-> getAllAnnouncements]

StudentAnnouncements(hdr) ==
    StudentRead("GET /api/student/announcements", hdr, requireStudentToken(hdr), 200,
                StudentAnnouncementsOut)

(***************************************************************************)
(* GET /api/student/stats                                                  *)
(***************************************************************************)
RECURSIVE TotalUnits(_)
TotalUnits(S) ==
    IF S = {} THEN 0 ELSE LET g == Row(S) IN g.units + TotalUnits(S \ {g})

RECURSIVE MaxScale(_)
MaxScale(S) ==
    IF S = {} THEN 0
    ELSE LET g == Row(S)
             k == parseFloat(g.grade).scale
             r == MaxScale(S \ {g})
         IN  IF k > r THEN k ELSE r

\* Sum of grade * units as a numerator over 10^sc.
RECURSIVE WeightedSum(_, _)
WeightedSum(S, sc) ==
    IF S = {} THEN 0
    ELSE LET g == Row(S)
             x == parseFloat(g.grade)
         IN  Signed(x) * Pow10(sc - x.scale) * g.units + WeightedSum(S \ {g}, sc)

Abs(n) == IF n < 0 THEN 0 - n ELSE n

\* The binary exponent of the double m/200, as the shift 49 - e that leaves
\* m * 2^(49 - e) / 25 with the 53 significant bits before the point.
RECURSIVE ExponentUp(_, _)
ExponentUp(m, e) == IF 200 * 2^(e + 1) <= m THEN ExponentUp(m, e + 1) ELSE e

RECURSIVE ExponentDown(_, _)
ExponentDown(m, k) == IF m * 2^k >= 200 THEN k ELSE ExponentDown(m, k + 1)

MantissaShift(m) == IF m >= 200 THEN 49 - ExponentUp(m, 0) ELSE 49 + ExponentDown(m, 0)

RECURSIVE Pow2Mod25(_)
Pow2Mod25(k) == IF k = 0 THEN 1 ELSE (2 * Pow2Mod25(k - 1)) % 25

\* The quotient m/200 (m odd) lies halfway between two hundredths. The
\* division yields the double nearest to it, and toFixed(2) rounds that
\* double's exact value: up when the double is m/200 itself or above it
\* (the discarded part of the significand is at least one half), down when
\* the double is below it.
HalfwayUp(m) ==
    LET r == (m * Pow2Mod25(MantissaShift(m))) % 25 IN r = 0 \/ r >= 13

\* parseFloat(gwa.toFixed(2)) in hundredths, for grades whose values and
\* products with the units are exact in binary (multiples of 1/4, as every
\* grade text written here is): the sum is exact, the division rounds once
\* and toFixed(2) takes the hundredth nearest to the resulting double. Off a
\* halfway point that is the hundredth nearest to the exact quotient. NaN
\* when a stored grade does not parse.
Gwa(S) ==
    LET totalUnits == TotalUnits(S)
        sc == MaxScale(S)
        num == WeightedSum(S, sc)
        den == Pow10(sc) * totalUnits
        m == (200 * Abs(num)) \div den
        halfway == (200 * Abs(num)) % den = 0 /\ m % 2 = 1
        q == IF halfway
             THEN (IF HalfwayUp(m) THEN (m + 1) \div 2 ELSE (m - 1) \div 2)
             ELSE (200 * Abs(num) + den) \div (2 * den)
    IN  IF totalUnits > 0
        THEN IF \E g \in S : parseFloat(g.grade).nan
             THEN [nan |-> TRUE, cents |-> 0]
             ELSE [nan |-> FALSE, cents |-> IF num < 0 THEN 0 - q ELSE q]
        ELSE [nan |-> FALSE, cents |-> 0]

DefaultSemester == "1st Semester 2024-2025"

\* The semesters a query may return first: the rows come back in no stated order.
FirstSemesters(gr, uid) ==
    IF getAllGrades(gr, uid) = {} THEN {DefaultSemester}
    ELSE {IF g.semester = "" THEN DefaultSemester ELSE g.semester : g \in getAllGrades(gr, uid)}

StudentStatsOut(gr, uid, first) ==
    LET studentGrades == getAllGrades(gr, uid) IN
    [totalSubjects |-> Cardinality(studentGrades),
     totalUnits |-> TotalUnits(studentGrades),
     gwa |-> Gwa(studentGrades),
     semesters |-> {g.semester : g \in studentGrades},
     currentSemester |-> first]

StatsRoute == "GET /api/student/stats"

StudentStats(hdr) ==
    LET g == requireStudentToken(hdr) IN
    IF g.status # 0 THEN Rejected(StatsRoute, hdr, Null, NoBody, g)
    ELSE /\ \E first \in FirstSemesters(grades, g.uid) :
              resp' = Reply(StatsRoute, hdr, Null, NoBody, 200, TRUE, g.uid,
                            StudentStatsOut(grades, g.uid, first))
         /\ sessions' = g.sessions
         /\ UNCHANGED <<tables, now, pending, boot, screen, seq>>

(***************************************************************************)
(* Admin write routes: students                                            *)
(***************************************************************************)
\* The response of a handler that ran behind a guard g.
Respond(route, hdr, id, body, g, status, out) ==
    /\ resp' = Reply(route, hdr, id, body, status, TRUE, g.uid, out)
    /\ sessions' = g.sessions
    /\ now' = now
    /\ UNCHANGED <<pending, boot, screen>>

DefaultStudentPassword == "student123"

\* POST /api/admin/students
CreateStudentRoute == "POST /api/admin/students"

NewStudent(id, body) ==
    [id |-> id,
     studentId |-> body.studentId,
     firstName |-> body.firstName,
     lastName |-> body.lastName,
     middleName |-> OrDefault(body, "middleName", ""),
     suffix |-> OrDefault(body, "suffix", ""),
     course |-> body.course,
     yearLevel |-> OrDefault(body, "yearLevel", "1st Year"),
     email |-> OrDefault(body, "email", ""),
     contactNumber |-> OrDefault(body, "contactNumber", ""),
     address |-> OrDefault(body, "address", ""),
     dateOfBirth |-> OrDefault(body, "dateOfBirth", ""),
     gender |-> OrDefault(body, "gender", ""),
     status |-> OrDefault(body, "status", "Regular"),
     sectionId |-> IF TruthyId(body, "sectionId") THEN body.sectionId ELSE Null,
     password |-> Hash(OrDefault(body, "password", DefaultStudentPassword)),
     role |-> "student"]

AdminCreateStudent(hdr, body) ==
    LET g == requireAdminToken(hdr) IN
    IF g.status # 0 THEN Rejected(CreateStudentRoute, hdr, Null, NoBody, g)
    ELSE IF ~Truthy(body, "studentId") \/ ~Truthy(body, "firstName")
            \/ ~Truthy(body, "lastName") \/ ~Truthy(body, "course")
    THEN /\ Respond(CreateStudentRoute, hdr, Null, body, g, 400,
                    Message("studentId, firstName, lastName, course are required"))
         /\ UNCHANGED <<tables, seq>>
    ELSE IF getStudentByStudentId(body.studentId) # {}
    THEN /\ Respond(CreateStudentRoute, hdr, Null, body, g, 409,
                    Message("Student ID already exists"))
         /\ UNCHANGED <<tables, seq>>
    ELSE LET student == NewStudent(seq.student, body) IN
         /\ seq.student <= MaxStudents
         /\ students' = Put(students, student.id, student)
         /\ seq' = [seq EXCEPT !.student = @ + 1]
         /\ Respond(CreateStudentRoute, hdr, Null, body, g, 201,
                    [row |-> OmitPassword(student)])
         /\ UNCHANGED <<users, sections, grades, scheduleItems, announcements>>

\* PUT /api/admin/students/:id
UpdateStudentRoute == "PUT /api/admin/students/:id"

StudentUpdateFields ==
    {"firstName", "lastName", "middleName", "suffix", "course", "yearLevel", "email",
     "contactNumber", "address", "dateOfBirth", "gender", "status"}

\* updateData: sectionId is body.sectionId ?? null, password only when truthy.
StudentUpdateData(body) ==
    LET sec == [sectionId |-> IF Has(body, "sectionId") THEN body.sectionId ELSE Null]
        pw == IF Truthy(body, "password") THEN [password |-> Hash(body.password)] ELSE <<>>
        picked == Pick(body, StudentUpdateFields)
    IN  [f \in DOMAIN picked \cup DOMAIN sec \cup DOMAIN pw |->
            IF f \in DOMAIN pw THEN pw[f]
            ELSE IF f \in DOMAIN sec THEN sec[f] ELSE picked[f]]

AdminUpdateStudent(hdr, id, body) ==
    LET g == requireAdminToken(hdr) IN
    IF g.status # 0 THEN Rejected(UpdateStudentRoute, hdr, id, NoBody, g)
    ELSE IF getStudentById(students, id) = {}
    THEN /\ Respond(UpdateStudentRoute, hdr, id, body, g, 404, Message("Student not found"))
         /\ UNCHANGED <<tables, seq>>
    ELSE /\ students' = updateStudent(students, id, StudentUpdateData(body))
         /\ Respond(UpdateStudentRoute, hdr, id, body, g, 200,
                    [row |-> OmitPassword(students'[id])])
         /\ UNCHANGED <<users, sections, grades, scheduleItems, announcements, seq>>

\* DELETE /api/admin/students/:id
DeleteStudentRoute == "DELETE /api/admin/students/:id"

AdminDeleteStudent(hdr, id) ==
    LET g == requireAdminToken(hdr) IN
    IF g.status # 0 THEN Rejected(DeleteStudentRoute, hdr, id, NoBody, g)
    ELSE IF getStudentById(students, id) = {}
    THEN /\ Respond(DeleteStudentRoute, hdr, id, NoBody, g, 404, Message("Student not found"))
         /\ UNCHANGED <<tables, seq>>
    ELSE /\ students' = Drop(students, {id})
         /\ Respond(DeleteStudentRoute, hdr, id, NoBody, g, 200, Message("Student deleted"))
         /\ UNCHANGED <<users, sections, grades, scheduleItems, announcements, seq>>

(***************************************************************************)
(* Admin write routes: sections                                            *)
(***************************************************************************)
\* A storage call that throws (a unique constraint, an UPDATE with nothing to
\* set): the handler's promise rejects, nothing is written and no success
\* response is sent; it is recorded as status 500.
Threw(route, hdr, id, body, g) ==
    /\ Respond(route, hdr, id, body, g, 500, Message("Internal Server Error"))
    /\ UNCHANGED <<tables, seq>>

getAllSections == {sections[i] : i \in DOMAIN sections}

getSectionById(id) == {sections[i] : i \in {j \in DOMAIN sections : j = id}}

SectionNameTaken(name, except) ==
    \E i \in DOMAIN sections \ {except} : sections[i].name = name

\* GET /api/admin/sections
AdminListSections(hdr) ==
    AdminRead("GET /api/admin/sections", hdr, Null, 200, [list |-> getAllSections])

\* POST /api/admin/sections
CreateSectionRoute == "POST /api/admin/sections"

NewSection(id, body) ==
    [id |-> id,
     name |-> body.name,
     course |-> OrDefault(body, "course", ""),
     yearLevel |-> OrDefault(body, "yearLevel", ""),
     schoolYear |-> OrDefault(body, "schoolYear", ""),
     description |-> OrDefault(body, "description", "")]

AdminCreateSection(hdr, body) ==
    LET g == requireAdminToken(hdr) IN
    IF g.status # 0 THEN Rejected(CreateSectionRoute, hdr, Null, NoBody, g)
    ELSE IF ~Truthy(body, "name")
    THEN /\ Respond(CreateSectionRoute, hdr, Null, body, g, 400,
                    Message("Section name is required"))
         /\ UNCHANGED <<tables, seq>>
    ELSE IF SectionNameTaken(body.name, Null)
    THEN Threw(CreateSectionRoute, hdr, Null, body, g)
    ELSE LET section == NewSection(seq.section, body) IN
         /\ seq.section <= MaxSections
         /\ sections' = Put(sections, section.id, section)
         /\ seq' = [seq EXCEPT !.section = @ + 1]
         /\ Respond(CreateSectionRoute, hdr, Null, body, g, 201, [row |-> section])
         /\ UNCHANGED <<users, students, grades, scheduleItems, announcements>>

\* PUT /api/admin/sections/:id
UpdateSectionRoute == "PUT /api/admin/sections/:id"

SectionUpdateFields == {"name", "course", "yearLevel", "schoolYear", "description"}

AdminUpdateSection(hdr, id, body) ==
    LET g == requireAdminToken(hdr)
        data == Pick(body, SectionUpdateFields)
    IN  IF g.status # 0 THEN Rejected(UpdateSectionRoute, hdr, id, NoBody, g)
        ELSE IF DOMAIN data = {} THEN Threw(UpdateSectionRoute, hdr, id, body, g)
        ELSE IF getSectionById(id) = {}
        THEN /\ Respond(UpdateSectionRoute, hdr, id, body, g, 404, Message("Section not found"))
             /\ UNCHANGED <<tables, seq>>
        ELSE IF Has(data, "name") /\ SectionNameTaken(data.name, id)
        THEN Threw(UpdateSectionRoute, hdr, id, body, g)
        ELSE /\ sections' = [sections EXCEPT ![id] = Merge(@, data)]
             /\ Respond(UpdateSectionRoute, hdr, id, body, g, 200, [row |-> sections'[id]])
             /\ UNCHANGED <<users, students, grades, scheduleItems, announcements, seq>>

\* Faulty variant: the members of the section are deleted with it.
MutUnassignSection(tbl, id) ==
    [i \in {j \in DOMAIN tbl : tbl[j].sectionId # id} |-> tbl[i]]

\* storage.deleteSection: the students table after the unassignment.
UnassignSection(tbl, id) ==
    [i \in DOMAIN tbl |-> IF tbl[i].sectionId = id THEN Merge(tbl[i], [sectionId |-> Null])
                          ELSE tbl[i]]

\* DELETE /api/admin/sections/:id
DeleteSectionRoute == "DELETE /api/admin/sections/:id"

AdminDeleteSection(hdr, id) ==
    LET g == requireAdminToken(hdr) IN
    IF g.status # 0 THEN Rejected(DeleteSectionRoute, hdr, id, NoBody, g)
    ELSE /\ students' = UnassignSection(students, id)
         /\ sections' = Drop(sections, {id})
         /\ IF getSectionById(id) = {}
            THEN Respond(DeleteSectionRoute, hdr, id, NoBody, g, 404, Message("Section not found"))
            ELSE Respond(DeleteSectionRoute, hdr, id, NoBody, g, 200, Message("Section deleted"))
         /\ UNCHANGED <<users, grades, scheduleItems, announcements, seq>>

\* POST /api/admin/sections/:id/assign; body.studentIds is the set of the
\* array's elements; a body without the field stands for every non-array value.
AssignRoute == "POST /api/admin/sections/:id/assign"

IsArray(b, f) == Has(b, f)

AdminAssignStudents(hdr, id, body) ==
    LET g == requireAdminToken(hdr) IN
    IF g.status # 0 THEN Rejected(AssignRoute, hdr, id, NoBody, g)
    ELSE IF getSectionById(id) = {}
    THEN /\ Respond(AssignRoute, hdr, id, body, g, 404, Message("Section not found"))
         /\ UNCHANGED <<tables, seq>>
    ELSE IF ~IsArray(body, "studentIds")
    THEN /\ Respond(AssignRoute, hdr, id, body, g, 400, Message("studentIds must be an array"))
         /\ UNCHANGED <<tables, seq>>
    ELSE /\ students' = [i \in DOMAIN students |->
                            IF i \in body.studentIds
                            THEN Merge(students[i], [sectionId |-> id]) ELSE students[i]]
         /\ Respond(AssignRoute, hdr, id, body, g, 200, Message("student(s) assigned to section"))
         /\ UNCHANGED <<users, sections, grades, scheduleItems, announcements, seq>>

\* DELETE /api/admin/sections/:id/students/:studentId
RemoveFromSectionRoute == "DELETE /api/admin/sections/:id/students/:studentId"

AdminRemoveFromSection(hdr, id, studentId) ==
    LET g == requireAdminToken(hdr)
        params == [studentId |-> studentId]
    IN  IF g.status # 0 THEN Rejected(RemoveFromSectionRoute, hdr, id, NoBody, g)
        ELSE IF getStudentById(students, studentId) = {}
        THEN /\ Respond(RemoveFromSectionRoute, hdr, id, params, g, 404,
                        Message("Student not found"))
             /\ UNCHANGED <<tables, seq>>
        ELSE /\ students' = updateStudent(students, studentId, [sectionId |-> Null])
             /\ Respond(RemoveFromSectionRoute, hdr, id, params, g, 200,
                        Message("Student removed from section"))
             /\ UNCHANGED <<users, sections, grades, scheduleItems, announcements, seq>>

(***************************************************************************)
(* Admin write routes: grades                                              *)
(***************************************************************************)
CreateGradeRoute == "POST /api/admin/grades"

\* Number(body.units) || 3, for a numeric units field.
UnitsOrDefault(body) == IF Has(body, "units") /\ body.units # 0 THEN body.units ELSE 3

NewGrade(id, body) ==
    [id |-> id,
     studentId |-> body.studentId,
     subjectCode |-> body.subjectCode,
     subjectName |-> OrDefault(body, "subjectName", ""),
     instructor |-> OrDefault(body, "instructor", ""),
     grade |-> body.grade,
     units |-> UnitsOrDefault(body),
     semester |-> OrDefault(body, "semester", DefaultSemester),
     remarks |-> RemarksOf(body.grade)]

AdminCreateGrade(hdr, body) ==
    LET g == requireAdminToken(hdr) IN
    IF g.status # 0 THEN Rejected(CreateGradeRoute, hdr, Null, NoBody, g)
    ELSE IF ~TruthyId(body, "studentId") \/ ~Truthy(body, "subjectCode")
            \/ ~TruthyText(body, "grade")
    THEN /\ Respond(CreateGradeRoute, hdr, Null, body, g, 400,
                    Message("studentId, subjectCode, grade are required"))
         /\ UNCHANGED <<tables, seq>>
    ELSE LET grade == NewGrade(seq.grade, body) IN
         /\ seq.grade <= MaxGrades
         /\ grades' = Put(grades, grade.id, grade)
         /\ seq' = [seq EXCEPT !.grade = @ + 1]
         /\ Respond(CreateGradeRoute, hdr, Null, body, g, 201, [row |-> grade])
         /\ UNCHANGED <<users, students, sections, scheduleItems, announcements>>

\* PUT /api/admin/grades/:id
UpdateGradeRoute == "PUT /api/admin/grades/:id"

GradeUpdateFields == {"subjectCode", "subjectName", "instructor", "grade", "units", "semester"}

\* remarks: body.grade ? (parseFloat(body.grade) <= 3.0 ? ...) : undefined
GradeUpdateData(body) ==
    LET picked == Pick(body, GradeUpdateFields)
        rem == IF TruthyText(body, "grade") THEN [remarks |-> RemarksOf(body.grade)] ELSE <<>>
    IN  [f \in DOMAIN picked \cup DOMAIN rem |->
            IF f \in DOMAIN rem THEN rem[f] ELSE picked[f]]

AdminUpdateGrade(hdr, id, body) ==
    LET g == requireAdminToken(hdr)
        data == GradeUpdateData(body)
    IN  IF g.status # 0 THEN Rejected(UpdateGradeRoute, hdr, id, NoBody, g)
        ELSE IF DOMAIN data = {} THEN Threw(UpdateGradeRoute, hdr, id, body, g)
        ELSE IF id \notin DOMAIN grades
        THEN /\ Respond(UpdateGradeRoute, hdr, id, body, g, 404, Message("Grade not found"))
             /\ UNCHANGED <<tables, seq>>
        ELSE /\ grades' = [grades EXCEPT ![id] = Merge(@, data)]
             /\ Respond(UpdateGradeRoute, hdr, id, body, g, 200, [row |-> grades'[id]])
             /\ UNCHANGED <<users, students, sections, scheduleItems, announcements, seq>>

\* DELETE /api/admin/grades/:id
DeleteGradeRoute == "DELETE /api/admin/grades/:id"

AdminDeleteGrade(hdr, id) ==
    LET g == requireAdminToken(hdr) IN
    IF g.status # 0 THEN Rejected(DeleteGradeRoute, hdr, id, NoBody, g)
    ELSE IF id \notin DOMAIN grades
    THEN /\ Respond(DeleteGradeRoute, hdr, id, NoBody, g, 404, Message("Grade not found"))
         /\ UNCHANGED <<tables, seq>>
    ELSE /\ grades' = Drop(grades, {id})
         /\ Respond(DeleteGradeRoute, hdr, id, NoBody, g, 200, Message("Grade deleted"))
         /\ UNCHANGED <<users, students, sections, scheduleItems, announcements, seq>>

(***************************************************************************)
(* Admin write routes: schedule                                            *)
(***************************************************************************)
\* GET /api/admin/schedule
AdminListSchedule(hdr) ==
    AdminRead("GET /api/admin/schedule", hdr, Null, 200, [list |-> getAllScheduleItems(scheduleItems)])

CreateScheduleRoute == "POST /api/admin/schedule"

NewScheduleItem(id, body) ==
    [id |-> id,
     subjectCode |-> body.subjectCode,
     subjectName |-> OrDefault(body, "subjectName", ""),
     day |-> body.day,
     timeStart |-> body.timeStart,
     timeEnd |-> body.timeEnd,
     room |-> OrDefault(body, "room", ""),
     instructor |-> OrDefault(body, "instructor", "")]

AdminCreateSchedule(hdr, body) ==
    LET g == requireAdminToken(hdr) IN
    IF g.status # 0 THEN Rejected(CreateScheduleRoute, hdr, Null, NoBody, g)
    ELSE IF ~Truthy(body, "subjectCode") \/ ~Truthy(body, "day")
            \/ ~Truthy(body, "timeStart") \/ ~Truthy(body, "timeEnd")
    THEN /\ Respond(CreateScheduleRoute, hdr, Null, body, g, 400,
                    Message("subjectCode, day, timeStart, timeEnd are required"))
         /\ UNCHANGED <<tables, seq>>
    ELSE LET item == NewScheduleItem(seq.schedule, body) IN
         /\ seq.schedule <= MaxScheduleItems
         /\ scheduleItems' = Put(scheduleItems, item.id, item)
         /\ seq' = [seq EXCEPT !.schedule = @ + 1]
         /\ Respond(CreateScheduleRoute, hdr, Null, body, g, 201, [row |-> item])
         /\ UNCHANGED <<users, students, sections, grades, announcements>>

\* PUT /api/admin/schedule/:id
UpdateScheduleRoute == "PUT /api/admin/schedule/:id"

ScheduleUpdateFields ==
    {"subjectCode", "subjectName", "day", "timeStart", "timeEnd", "room", "instructor"}

AdminUpdateSchedule(hdr, id, body) ==
    LET g == requireAdminToken(hdr)
        data == Pick(body, ScheduleUpdateFields)
    IN  IF g.status # 0 THEN Rejected(UpdateScheduleRoute, hdr, id, NoBody, g)
        ELSE IF DOMAIN data = {} THEN Threw(UpdateScheduleRoute, hdr, id, body, g)
        ELSE IF id \notin DOMAIN scheduleItems
        THEN /\ Respond(UpdateScheduleRoute, hdr, id, body, g, 404, Message("Schedule not found"))
             /\ UNCHANGED <<tables, seq>>
        ELSE /\ scheduleItems' = [scheduleItems EXCEPT ![id] = Merge(@, data)]
             /\ Respond(UpdateScheduleRoute, hdr, id, body, g, 200, [row |-> scheduleItems'[id]])
             /\ UNCHANGED <<users, students, sections, grades, announcements, seq>>

\* DELETE /api/admin/schedule/:id
DeleteScheduleRoute == "DELETE /api/admin/schedule/:id"

AdminDeleteSchedule(hdr, id) ==
    LET g == requireAdminToken(hdr) IN
    IF g.status # 0 THEN Rejected(DeleteScheduleRoute, hdr, id, NoBody, g)
    ELSE IF id \notin DOMAIN scheduleItems
    THEN /\ Respond(DeleteScheduleRoute, hdr, id, NoBody, g, 404, Message("Schedule not found"))
         /\ UNCHANGED <<tables, seq>>
    ELSE /\ scheduleItems' = Drop(scheduleItems, {id})
         /\ Respond(DeleteScheduleRoute, hdr, id, NoBody, g, 200, Message("Schedule deleted"))
         /\ UNCHANGED <<users, students, sections, grades, announcements, seq>>

(***************************************************************************)
(* Announcements                                                           *)
(***************************************************************************)
\* GET /api/admin/announcements is registered without a guard.
PublicAnnouncementsRoute == "GET /api/admin/announcements"

PublicAnnouncements(hdr) ==
    /\ resp' = Reply(PublicAnnouncementsRoute, hdr, Null, NoBody, 200, TRUE, Null,
                     [list |-> getAllAnnouncements])
    /\ UNCHANGED <<tables, sessions, now, pending, boot, screen, seq>>

\* new Date().toISOString().split("T")[0], the clock counting from 1970-01-01.
Today == "1970-01-0" \o ToString(now \div TOKEN_TTL_MS + 1)

CreateAnnouncementRoute == "POST /api/admin/announcements"

NewAnnouncement(id, body) ==
    [id |-> id,
     title |-> body.title,
     description |-> body.description,
     date |-> OrDefault(body, "date", Today),
     isImportant |-> Has(body, "isImportant") /\ body.isImportant,
     category |-> OrDefault(body, "category", "General")]

AdminCreateAnnouncement(hdr, body) ==
    LET g == requireAdminToken(hdr) IN
    IF g.status # 0 THEN Rejected(CreateAnnouncementRoute, hdr, Null, NoBody, g)
    ELSE IF ~Truthy(body, "title") \/ ~Truthy(body, "description")
    THEN /\ Respond(CreateAnnouncementRoute, hdr, Null, body, g, 400,
                    Message("title and description are required"))
         /\ UNCHANGED <<tables, seq>>
    ELSE LET announcement == NewAnnouncement(seq.announcement, body) IN
         /\ seq.announcement <= MaxAnnouncements
         /\ announcements' = Put(announcements, announcement.id, announcement)
         /\ seq' = [seq EXCEPT !.announcement = @ + 1]
         /\ Respond(CreateAnnouncementRoute, hdr, Null, body, g, 201, [row |-> announcement])
         /\ UNCHANGED <<users, students, sections, grades, scheduleItems>>

\* PUT /api/admin/announcements/:id
UpdateAnnouncementRoute == "PUT /api/admin/announcements/:id"

AnnouncementUpdateFields == {"title", "description", "date", "isImportant", "category"}

AdminUpdateAnnouncement(hdr, id, body) ==
    LET g == requireAdminToken(hdr)
        data == Pick(body, AnnouncementUpdateFields)
    IN  IF g.status # 0 THEN Rejected(UpdateAnnouncementRoute, hdr, id, NoBody, g)
        ELSE IF DOMAIN data = {} THEN Threw(UpdateAnnouncementRoute, hdr, id, body, g)
        ELSE IF id \notin DOMAIN announcements
        THEN /\ Respond(UpdateAnnouncementRoute, hdr, id, body, g, 404,
                        Message("Announcement not found"))
             /\ UNCHANGED <<tables, seq>>
        ELSE /\ announcements' = [announcements EXCEPT ![id] = Merge(@, data)]
             /\ Respond(UpdateAnnouncementRoute, hdr, id, body, g, 200,
                        [row |-> announcements'[id]])
             /\ UNCHANGED <<users, students, sections, grades, scheduleItems, seq>>

\* DELETE /api/admin/announcements/:id
DeleteAnnouncementRoute == "DELETE /api/admin/announcements/:id"

AdminDeleteAnnouncement(hdr, id) ==
    LET g == requireAdminToken(hdr) IN
    IF g.status # 0 THEN Rejected(DeleteAnnouncementRoute, hdr, id, NoBody, g)
    ELSE IF id \notin DOMAIN announcements
    THEN /\ Respond(DeleteAnnouncementRoute, hdr, id, NoBody, g, 404,
                    Message("Announcement not found"))
         /\ UNCHANGED <<tables, seq>>
    ELSE /\ announcements' = Drop(announcements, {id})
         /\ Respond(DeleteAnnouncementRoute, hdr, id, NoBody, g, 200,
                    Message("Announcement deleted"))
         /\ UNCHANGED <<users, students, sections, grades, scheduleItems, seq>>

(***************************************************************************)
(* Self-service account routes                                             *)
(***************************************************************************)
\* PUT /api/admin/account
AdminAccountRoute == "PUT /api/admin/account"

AdminAccountUpdates(admin, body) ==
    LET un == IF Truthy(body, "newUsername") /\ body.newUsername # admin.username
              THEN [username |-> body.newUsername] ELSE <<>>
        pw == IF Truthy(body, "newPassword")
              THEN [password |-> Hash(body.newPassword)] ELSE <<>>
    IN  [f \in DOMAIN un \cup DOMAIN pw |-> IF f \in DOMAIN un THEN un[f] ELSE pw[f]]

AdminAccount(hdr, body) ==
    LET g == requireAdminToken(hdr)
        session == storage_getSession(hdr.tok)
        admin == getAdminById(Row(session).userId)
        R(status, out) == /\ Respond(AdminAccountRoute, hdr, Null, body, g, status, out)
                          /\ UNCHANGED <<tables, seq>>
    IN  IF g.status # 0 THEN Rejected(AdminAccountRoute, hdr, Null, NoBody, g)
        ELSE IF session = {} THEN R(401, Message("Unauthorized"))
        ELSE IF admin = {} THEN R(404, Message("Admin not found"))
        ELSE IF ~Truthy(body, "currentPassword")
        THEN R(400, Message("Current password is required"))
        ELSE IF ~Compare(body.currentPassword, Row(admin).password)
        THEN R(400, Message("Incorrect current password"))
        ELSE IF Truthy(body, "newUsername") /\ body.newUsername # Row(admin).username
                /\ getAdminByUsername(body.newUsername) # {}
        THEN R(400, Message("Username already taken"))
        ELSE IF Truthy(body, "newPassword") /\ Len(body.newPassword) < MinPasswordLength
        THEN R(400, Message("New password must be at least 8 characters"))
        ELSE IF DOMAIN AdminAccountUpdates(Row(admin), body) = {}
        THEN R(200, [message |-> "No changes requested", user |-> Row(admin)])
        ELSE LET id == Row(admin).id IN
             /\ users' = [users EXCEPT ![id] = Merge(@, AdminAccountUpdates(Row(admin), body))]
             /\ Respond(AdminAccountRoute, hdr, Null, body, g, 200,
                        [message |-> "Account updated successfully",
                         user |-> OmitPassword(users'[id])])
             /\ UNCHANGED <<students, sections, grades, scheduleItems, announcements, seq>>

\* POST /api/student/change-password
ChangePasswordRoute == "POST /api/student/change-password"

StudentChangePassword(hdr, body) ==
    LET g == requireStudentToken(hdr)
        student == getStudentById(students, g.uid)
        R(status, out) == /\ Respond(ChangePasswordRoute, hdr, Null, body, g, status, out)
                          /\ UNCHANGED <<tables, seq>>
    IN  IF g.status # 0 THEN Rejected(ChangePasswordRoute, hdr, Null, NoBody, g)
        ELSE IF ~Truthy(body, "currentPassword") \/ ~Truthy(body, "newPassword")
        THEN R(400, Message("currentPassword and newPassword are required"))
        ELSE IF Len(body.newPassword) < MinPasswordLength
        THEN R(400, Message("New password must be at least 8 characters"))
        ELSE IF student = {} THEN R(404, Message("Student not found"))
        ELSE IF ~Compare(body.currentPassword, Row(student).password)
        THEN R(401, Message("Current password is incorrect"))
        ELSE /\ students' = updateStudent(students, g.uid, [password |-> Hash(body.newPassword)])
             /\ Respond(ChangePasswordRoute, hdr, Null, body, g, 200,
                        Message("Password updated successfully"))
             /\ UNCHANGED <<users, sections, grades, scheduleItems, announcements, seq>>

\* PUT /api/student/account
StudentAccountRoute == "PUT /api/student/account"

StudentAccountUpdates(student, body) ==
    LET sid == IF Truthy(body, "newStudentId") /\ body.newStudentId # student.studentId
               THEN [studentId |-> body.newStudentId] ELSE <<>>
        pw == IF Truthy(body, "newPassword")
              THEN [password |-> Hash(body.newPassword)] ELSE <<>>
    IN  [f \in DOMAIN sid \cup DOMAIN pw |-> IF f \in DOMAIN sid THEN sid[f] ELSE pw[f]]

\* Faulty variant: the new studentId is written as soon as it is found free,
\* before the new password is validated.
MutStudentAccount(hdr, body) ==
    LET g == requireStudentToken(hdr)
        student == getStudentById(students, g.uid)
        R(status, out) == /\ Respond(StudentAccountRoute, hdr, Null, body, g, status, out)
                          /\ UNCHANGED <<tables, seq>>
        W(data, status, out) ==
            /\ students' = updateStudent(students, g.uid, data)
            /\ Respond(StudentAccountRoute, hdr, Null, body, g, status, out)
            /\ UNCHANGED <<users, sections, grades, scheduleItems, announcements, seq>>
    IN  IF g.status # 0 THEN Rejected(StudentAccountRoute, hdr, Null, NoBody, g)
        ELSE IF ~Truthy(body, "currentPassword")
        THEN R(400, Message("Current password is required to update account"))
        ELSE IF student = {} THEN R(404, Message("Student not found"))
        ELSE IF ~Compare(body.currentPassword, Row(student).password)
        THEN R(401, Message("Current password is incorrect"))
        ELSE IF Truthy(body, "newStudentId") /\ body.newStudentId # Row(student).studentId
                /\ getStudentByStudentId(body.newStudentId) # {}
        THEN R(409, Message("That Student ID is already in use"))
        ELSE IF Truthy(body, "newPassword") /\ Len(body.newPassword) < MinPasswordLength
        THEN IF Truthy(body, "newStudentId")
             THEN W([studentId |-> body.newStudentId], 400,
                    Message("New password must be at least 8 characters"))
             ELSE R(400, Message("New password must be at least 8 characters"))
        ELSE IF DOMAIN StudentAccountUpdates(Row(student), body) = {}
        THEN R(400, Message("No changes provided"))
        ELSE W(StudentAccountUpdates(Row(student), body), 200,
               [message |-> "Account updated successfully"])

StudentAccount(hdr, body) ==
    LET g == requireStudentToken(hdr)
        student == getStudentById(students, g.uid)
        R(status, out) == /\ Respond(StudentAccountRoute, hdr, Null, body, g, status, out)
                          /\ UNCHANGED <<tables, seq>>
    IN  IF g.status # 0 THEN Rejected(StudentAccountRoute, hdr, Null, NoBody, g)
        ELSE IF ~Truthy(body, "currentPassword")
        THEN R(400, Message("Current password is required to update account"))
        ELSE IF student = {} THEN R(404, Message("Student not found"))
        ELSE IF ~Compare(body.currentPassword, Row(student).password)
        THEN R(401, Message("Current password is incorrect"))
        ELSE IF Truthy(body, "newStudentId") /\ body.newStudentId # Row(student).studentId
                /\ getStudentByStudentId(body.newStudentId) # {}
        THEN R(409, Message("That Student ID is already in use"))
        ELSE IF Truthy(body, "newPassword") /\ Len(body.newPassword) < MinPasswordLength
        THEN R(400, Message("New password must be at least 8 characters"))
        ELSE IF DOMAIN StudentAccountUpdates(Row(student), body) = {}
        THEN R(400, Message("No changes provided"))
        ELSE /\ students' = updateStudent(students, g.uid,
                                          StudentAccountUpdates(Row(student), body))
             /\ Respond(StudentAccountRoute, hdr, Null, body, g, 200,
                        [message |-> "Account updated successfully",
                         user |-> OmitPassword(students'[g.uid])])
             /\ UNCHANGED <<users, sections, grades, scheduleItems, announcements, seq>>

(***************************************************************************)
(* Initial state: registerRoutes has run on an empty database, so the       *)
(* default admin is seeded and no request has been served.                 *)
(***************************************************************************)
DefaultAdmin ==
    [id |-> 1, username |-> "admin", password |-> Hash("admin123"),
     firstName |-> "System", lastName |-> "Administrator", role |-> "admin"]

\* const DAYS (app/(tabs)/schedule.tsx; the admin screen imports the same
\* list from constants/data).
DAYS == <<"Monday", "Tuesday", "Wednesday", "Thursday", "Friday">>

\* The two schedule screens as mounted: the admin form is emptyForm, no day
\* filter is set, the student screen shows DAYS[0], and no item is loaded.
NoScreen == [days |-> <<>>, items |-> {}, filterDay |-> "", selectedDay |-> DAYS[1]]

\* The module state of the serverless entry point once setupApp has run:
\* initialized is set, setupApp was started and completed once.
Booted == [initialized |-> TRUE, setups |-> 1, completed |-> 1]

\* No response is being sent.
NoResponse == Reply("idle", NoHeader, Null, NoBody, 0, FALSE, Null, Message(""))

Idle == resp = NoResponse

Init ==
    /\ users = Put(<<>>, 1, DefaultAdmin)
    /\ students = <<>>
    /\ sections = <<>>
    /\ grades = <<>>
    /\ scheduleItems = <<>>
    /\ announcements = <<>>
    /\ sessions = <<>>
    /\ now = 0
    /\ seq = [token |-> 1, student |-> 1, section |-> 1, grade |-> 1,
              schedule |-> 1, announcement |-> 1]
    /\ resp = NoResponse
    /\ pending = <<>>
    /\ boot = Booted
    /\ screen = NoScreen

\* storage.upsertAdmin: the users table after the call. The row is looked up
\* by data.username; a new row gets a fresh id (no user row is ever deleted).
upsertAdmin(data) ==
    IF getAdminByUsername(data.username) # {} THEN users
    ELSE LET id == Cardinality(DOMAIN users) + 1 IN Put(users, id, [data EXCEPT !.id = id])

\* The server process starts again on the same database: registerRoutes
\* seeds the default admin. Sessions live in the database and survive.
Restart ==
    /\ users' = upsertAdmin(DefaultAdmin)
    /\ UNCHANGED <<students, sections, grades, scheduleItems, announcements,
                   sessions, now, pending, boot, screen, seq, resp>>

\* res.json(...) has been written out; the server takes the next request.
Deliver ==
    /\ ~Idle
    /\ resp' = NoResponse
    /\ UNCHANGED <<tables, sessions, now, pending, boot, screen, seq>>

(***************************************************************************)
(* Requests the clients send                                               *)
(***************************************************************************)
Issued == 1 .. (seq.token - 1)

Bearer(t) == [scheme |-> "Bearer", tok |-> t]

\* No header, the header "Bearer ", a forged token, every token issued so
\* far, and an issued token under another scheme.
Headers ==
    {NoHeader, Bearer(EmptyToken), Bearer(ForgedToken)}
        \cup {Bearer(t) : t \in Issued}
        \cup {[scheme |-> "Basic", tok |-> t] : t \in Issued \cap {1}}

StudentRowIds == 1 .. MaxStudents

LoginBodies ==
    {[username |-> "admin", password |-> "admin123"],
     [username |-> "admin", password |-> "student123"],
     [username |-> "2024-0001", password |-> "student123"],
     [username |-> "2024-0001", password |-> "student123", role |-> "admin"],
     [username |-> "2024-0001", password |-> "admin123"],
     [username |-> "admin", password |-> ""],
     [password |-> "admin123"]}

StudentBodies ==
    {[studentId |-> i, firstName |-> "Ana", lastName |-> "Cruz", course |-> "BSIT"] :
        i \in {"admin", "2024-0001"}}
        \cup {[studentId |-> "2024-0001", firstName |-> "Ana", lastName |-> "Cruz",
               course |-> "BSIT", password |-> "admin123", sectionId |-> 1]}

SectionRowIds == 1 .. MaxSections

\* The session lifecycle: login, logout, expiry and sweep, with read routes
\* behind each guard and the route that creates student logins.
Next ==
    \/ Deliver
    \/ Idle /\ Tick
    \/ Idle /\ Sweep
    \/ \E body \in LoginBodies : Idle /\ Login(body)
    \/ \E hdr \in Headers : Idle /\ Logout(hdr)
    \/ \E hdr \in Headers : Idle /\ AdminStats(hdr)
    \/ \E hdr \in Headers : Idle /\ AdminListStudents(hdr)
    \/ \E hdr \in Headers, id \in SectionRowIds : Idle /\ AdminSectionStudents(hdr, id)
    \/ \E hdr \in Headers : Idle /\ AdminListSections(hdr)
    \/ \E hdr \in Headers : Idle /\ AdminListGrades(hdr, Null)
    \/ \E hdr \in Headers : Idle /\ AdminListSchedule(hdr)
    \/ \E hdr \in Headers : Idle /\ StudentProfile(hdr)
    \/ \E hdr \in Headers : Idle /\ StudentGrades(hdr)
    \/ \E hdr \in Headers : Idle /\ StudentSchedule(hdr)
    \/ \E hdr \in Headers : Idle /\ StudentStats(hdr)
    \/ \E hdr \in Headers : Idle /\ StudentAnnouncements(hdr)
    \/ \E hdr \in Headers, body \in StudentBodies : Idle /\ AdminCreateStudent(hdr, body)

Spec == Init /\ [][Next]_vars

(***************************************************************************)
(* Properties of the authorization gate and of the session lifecycle        *)
(***************************************************************************)
AdminGuarded ==
    {"GET /api/admin/stats", "GET /api/admin/students", CreateStudentRoute,
     UpdateStudentRoute, DeleteStudentRoute, "GET /api/admin/sections",
     CreateSectionRoute, UpdateSectionRoute, DeleteSectionRoute, AssignRoute,
     RemoveFromSectionRoute, "GET /api/admin/sections/:id/students",
     "GET /api/admin/grades", CreateGradeRoute, UpdateGradeRoute, DeleteGradeRoute,
     "GET /api/admin/schedule", CreateScheduleRoute, UpdateScheduleRoute,
     DeleteScheduleRoute, CreateAnnouncementRoute, UpdateAnnouncementRoute,
     DeleteAnnouncementRoute, AdminAccountRoute}

StudentGuarded ==
    {"GET /api/student/profile", "GET /api/student/grades", "GET /api/student/schedule",
     StatsRoute, "GET /api/student/announcements", ChangePasswordRoute, StudentAccountRoute}

Guarded == AdminGuarded \cup StudentGuarded

RequiredRole(route) == IF route \in AdminGuarded THEN "admin" ELSE "student"

\* The header presents a token that has a stored session which has not expired.
PresentsLive(hdr) ==
    /\ hdr.scheme = "Bearer"
    /\ hdr.tok \in DOMAIN sessions
    /\ sessions[hdr.tok].expiresAt >= now

\* A step that serves a request to a guarded route (resp' is its record).
GuardedRequest == Idle /\ resp'.route \in Guarded

\* C1: a request to a guarded route is answered 401 without running the
\* handler when it presents no live session, 403 without running the handler
\* when the live session has the other role, and otherwise the handler runs,
\* on student routes with studentUserId = session.userId.
C1_Step ==
    GuardedRequest =>
        LET h == resp'.hdr IN
        /\ ~PresentsLive(h) => resp'.status = 401 /\ ~resp'.ran
        /\ PresentsLive(h) /\ sessions[h.tok].role # RequiredRole(resp'.route)
              => resp'.status = 403 /\ ~resp'.ran
        /\ PresentsLive(h) /\ sessions[h.tok].role = RequiredRole(resp'.route)
              => /\ resp'.ran
                 /\ resp'.route \in StudentGuarded => resp'.uid = sessions[h.tok].userId

C1_GuardContract == [][C1_Step]_vars

\* A student handler ran for the owner of the presented session, in a store
\* that also holds an admin session.
C1_Witness ==
    /\ resp.route \in StudentGuarded
    /\ resp.ran
    /\ resp.hdr.tok \in DOMAIN sessions
    /\ resp.uid = sessions[resp.hdr.tok].userId
    /\ \E t \in DOMAIN sessions : sessions[t].role = "admin"

AdminMatch(b) ==
    \E i \in DOMAIN users :
        users[i].username = b.username /\ users[i].password = Hash(b.password)

StudentMatch(b) ==
    \E i \in DOMAIN students :
        students[i].studentId = b.username /\ students[i].password = Hash(b.password)

LoginOk == Idle /\ resp'.route = LoginRoute /\ resp'.status = 200

\* C2: a successful login answers, and stores in the new session row, the
\* role of the table whose row matched the credentials, with userId the id of
\* that row; no other field of the request has a part in it.
C2_Step ==
    LoginOk =>
        LET b == resp'.body
            o == resp'.out
            s == sessions'[o.token]
        IN  /\ o.token \notin DOMAIN sessions
            /\ o.token \in DOMAIN sessions'
            /\ s.role = o.role
            /\ o.role \in {"admin", "student"}
            /\ o.role = "admin" =>
                  \E i \in DOMAIN users :
                      /\ users[i].username = b.username
                      /\ users[i].password = Hash(b.password)
                      /\ s.userId = i
            /\ o.role = "student" =>
                  \E i \in DOMAIN students :
                      /\ students[i].studentId = b.username
                      /\ students[i].password = Hash(b.password)
                      /\ s.userId = i
            /\ AdminMatch(b) => o.role = "admin"

C2_RoleFromTable == [][C2_Step]_vars

\* A login that asked for the role admin in its body and matched a student.
C2_Witness ==
    /\ resp.route = LoginRoute
    /\ resp.status = 200
    /\ Has(resp.body, "role")
    /\ resp.body.role = "admin"
    /\ resp.out.role = "student"
    /\ sessions[resp.out.token].role = "student"

Expired(t) == t \in DOMAIN sessions /\ sessions[t].expiresAt < now

\* The token authenticates nobody: it has no row, or its row has expired.
Dead(t) == t \notin DOMAIN sessions \/ Expired(t)

\* C3: a guarded request that presents an expired session is answered 401
\* and the row is gone afterwards; an issued token that is dead stays dead,
\* and every guarded request presenting it is answered 401.
C3_Step ==
    /\ \A t \in Issued :
          GuardedRequest /\ resp'.hdr = Bearer(t) /\ Expired(t)
              => resp'.status = 401 /\ ~resp'.ran /\ t \notin DOMAIN sessions'
    /\ \A t \in Issued :
          Dead(t) => /\ Dead(t)'
                     /\ GuardedRequest /\ resp'.hdr = Bearer(t) => resp'.status = 401

C3_LazyExpiry == [][C3_Step]_vars

\* The guard has just deleted the expired row of the presented token.
C3_Witness ==
    /\ resp.route \in Guarded
    /\ resp.evicted
    /\ resp.status = 401
    /\ resp.hdr.tok \in Issued
    /\ resp.hdr.tok \notin DOMAIN sessions

\* C4: with a non-empty username and password, login answers 401 and
\* creates no session exactly when neither table has a matching row; an
\* admin match wins, and a student match is used when no admin row matches,
\* also when an admin row with that username exists.
C4_Step ==
    (Idle /\ resp'.route = LoginRoute
          /\ Truthy(resp'.body, "username") /\ Truthy(resp'.body, "password")) =>
        LET b == resp'.body IN
        /\ (resp'.status = 401) <=> (~AdminMatch(b) /\ ~StudentMatch(b))
        /\ resp'.status = 401 => sessions' = sessions
        /\ AdminMatch(b) => resp'.status = 200 /\ resp'.out.role = "admin"
        /\ ~AdminMatch(b) /\ StudentMatch(b) => resp'.status = 200 /\ resp'.out.role = "student"

C5_Step ==
    /\ (Idle /\ resp'.route = LogoutRoute) =>
          /\ resp'.status = 200
          /\ LET h == resp'.hdr IN
             IF h.scheme = "Bearer" /\ h.tok \in DOMAIN sessions
             THEN sessions' = [t \in DOMAIN sessions \ {h.tok} |-> sessions[t]]
             ELSE sessions' = sessions
    /\ \A t \in Issued :
          t \notin DOMAIN sessions =>
              /\ t \notin DOMAIN sessions'
              /\ GuardedRequest /\ resp'.hdr = Bearer(t) => resp'.status = 401

C5_Logout == [][C5_Step]_vars

\* Before any session can have expired, a guarded request with an issued
\* token that has no row (it was logged out) is answered 401.
C5_Witness ==
    /\ now = 0
    /\ resp.route \in Guarded
    /\ resp.status = 401
    /\ resp.hdr.scheme = "Bearer"
    /\ resp.hdr.tok \in Issued
    /\ resp.hdr.tok \notin DOMAIN sessions

\* C6: a session row is created with expiresAt = now + 24 hours and no step
\* changes a row that stays in the store.
C6_Step ==
    /\ \A t \in DOMAIN sessions' \ DOMAIN sessions :
          sessions'[t].expiresAt = now + TOKEN_TTL_MS
    /\ \A t \in DOMAIN sessions \cap DOMAIN sessions' : sessions'[t] = sessions[t]

NoPassword(r) == "password" \notin DOMAIN r

SanitizedRoutes ==
    {LoginRoute, "GET /api/admin/students", "GET /api/admin/sections/:id/students",
     "GET /api/student/profile"}

\* C9: no response of login, of the two admin student lists or of the student
\* profile carries a password field in a user record.
C9_NoPasswordInResponses ==
    resp.route \in SanitizedRoutes =>
        /\ Has(resp.out, "user") => NoPassword(resp.out.user)
        /\ Has(resp.out, "row") => NoPassword(resp.out.row)
        /\ Has(resp.out, "list") => \A r \in resp.out.list : NoPassword(r)

\* The students of a section were listed, and there was one.
C9_Witness ==
    /\ resp.route = "GET /api/admin/sections/:id/students"
    /\ resp.ran
    /\ resp.out.list # {}

(***************************************************************************)
(* The write surface as seen by callers who are not an admin. The store     *)
(* is the one the admin leaves after entering two students, a section, a    *)
(* grade, a schedule item and an announcement; from there every write route *)
(* is called with every header that does not present a live admin session,  *)
(* while sessions are opened and expire.                                    *)
(***************************************************************************)
LiveAdmin(hdr) == PresentsLive(hdr) /\ sessions[hdr.tok].role = "admin"

GateHeaders == {NoHeader} \cup {Bearer(t) : t \in Issued}

NonAdminHeaders == {h \in GateHeaders : ~LiveAdmin(h)}

G300 == <<"3", ".", "0", "0">>

G325 == <<"3", ".", "2", "5">>

GateLoginBodies ==
    {[username |-> "admin", password |-> "admin123"],
     [username |-> "2024-0001", password |-> "student123"],
     [username |-> "2024-0003", password |-> "student123"]}

GateStudentBody ==
    [studentId |-> "2024-0001", firstName |-> "Ana", lastName |-> "Cruz", course |-> "BSIT"]

GateStudentBodies == {[GateStudentBody EXCEPT !.studentId = i] : i \in {"2024-0001", "2024-0003"}}

GateSectionBody == [name |-> "BSIT-1A"]

GateGradeBody == [studentId |-> 1, subjectCode |-> "IT101", grade |-> G300]

GateScheduleBody ==
    [subjectCode |-> "IT101", day |-> "Monday", timeStart |-> "08:00", timeEnd |-> "09:00"]

GateAnnouncementBody == [title |-> "Enrollment", description |-> "Opens Monday"]

InitGate ==
    /\ now = 0
    /\ users = Put(<<>>, 1, DefaultAdmin)
    /\ students = Put(Put(<<>>, 1, NewStudent(1, GateStudentBody)),
                      2, NewStudent(2, [GateStudentBody EXCEPT !.studentId = "2024-0003"]))
    /\ sections = Put(<<>>, 1, NewSection(1, GateSectionBody))
    /\ grades = Put(<<>>, 1, NewGrade(1, GateGradeBody))
    /\ scheduleItems = Put(<<>>, 1, NewScheduleItem(1, GateScheduleBody))
    /\ announcements = Put(<<>>, 1, NewAnnouncement(1, GateAnnouncementBody))
    /\ sessions = <<>>
    /\ seq = [token |-> 1, student |-> 3, section |-> 2, grade |-> 2,
              schedule |-> 2, announcement |-> 2]
    /\ resp = NoResponse
    /\ pending = <<>>
    /\ boot = Booted
    /\ screen = NoScreen

NextGate ==
    \/ Deliver
    \/ Idle /\ Tick
    \/ \E body \in GateLoginBodies : Idle /\ Login(body)
    \/ \E hdr \in NonAdminHeaders :
          Idle /\ AdminCreateStudent(hdr, [GateStudentBody EXCEPT !.studentId = "2024-0005"])
    \/ \E hdr \in NonAdminHeaders, id \in DOMAIN students :
          Idle /\ AdminUpdateStudent(hdr, id, [firstName |-> "Bea", password |-> "newpass456"])
    \/ \E hdr \in NonAdminHeaders, id \in DOMAIN students : Idle /\ AdminDeleteStudent(hdr, id)
    \/ \E hdr \in NonAdminHeaders :
          Idle /\ AdminCreateSection(hdr, [GateSectionBody EXCEPT !.name = "BSIT-1B"])
    \/ \E hdr \in NonAdminHeaders : Idle /\ AdminUpdateSection(hdr, 1, [name |-> "BSIT-1B"])
    \/ \E hdr \in NonAdminHeaders : Idle /\ AdminDeleteSection(hdr, 1)
    \/ \E hdr \in NonAdminHeaders : Idle /\ AdminAssignStudents(hdr, 1, [studentIds |-> {1}])
    \/ \E hdr \in NonAdminHeaders : Idle /\ AdminRemoveFromSection(hdr, 1, 1)
    \/ \E hdr \in NonAdminHeaders : Idle /\ AdminCreateGrade(hdr, GateGradeBody)
    \/ \E hdr \in NonAdminHeaders : Idle /\ AdminUpdateGrade(hdr, 1, [grade |-> G325])
    \/ \E hdr \in NonAdminHeaders : Idle /\ AdminDeleteGrade(hdr, 1)
    \/ \E hdr \in NonAdminHeaders : Idle /\ AdminCreateSchedule(hdr, GateScheduleBody)
    \/ \E hdr \in NonAdminHeaders : Idle /\ AdminUpdateSchedule(hdr, 1, [day |-> "Tuesday"])
    \/ \E hdr \in NonAdminHeaders : Idle /\ AdminDeleteSchedule(hdr, 1)
    \/ \E hdr \in NonAdminHeaders : Idle /\ AdminCreateAnnouncement(hdr, GateAnnouncementBody)
    \/ \E hdr \in NonAdminHeaders : Idle /\ AdminUpdateAnnouncement(hdr, 1, [title |-> "Moved"])
    \/ \E hdr \in NonAdminHeaders : Idle /\ AdminDeleteAnnouncement(hdr, 1)
    \/ \E hdr \in NonAdminHeaders :
          Idle /\ AdminAccount(hdr, [currentPassword |-> "admin123", newUsername |-> "root"])
    \/ \E hdr \in GateHeaders :
          Idle /\ StudentChangePassword(hdr, [currentPassword |-> "student123",
                                              newPassword |-> "newpass456"])
    \/ \E hdr \in GateHeaders :
          Idle /\ StudentAccount(hdr, [currentPassword |-> "student123",
                                       newStudentId |-> "2024-0002"])
    \/ \E hdr \in GateHeaders : Idle /\ PublicAnnouncements(hdr)

SpecGate == InitGate /\ [][NextGate]_vars

\* C7: a request that presents no live admin session leaves the admin users,
\* sections, grades, schedule items and announcements as they are, creates and
\* deletes no student, and changes at most the studentId and password of the
\* student who owns the presented session, through the two self-service routes.
C7_Step ==
    (Idle /\ ~Idle' /\ ~LiveAdmin(resp'.hdr)) =>
        /\ users' = users
        /\ sections' = sections
        /\ grades' = grades
        /\ scheduleItems' = scheduleItems
        /\ announcements' = announcements
        /\ DOMAIN students' = DOMAIN students
        /\ \A i \in DOMAIN students :
              /\ \A f \in DOMAIN students[i] \ {"studentId", "password"} :
                    students'[i][f] = students[i][f]
              /\ students'[i] # students[i] =>
                    /\ PresentsLive(resp'.hdr)
                    /\ sessions[resp'.hdr.tok].role = "student"
                    /\ sessions[resp'.hdr.tok].userId = i
                    /\ resp'.route \in {ChangePasswordRoute, StudentAccountRoute}

C7_OnlyAdminWrites == [][C7_Step]_vars

\* A student who has changed their own password is refused the deletion of
\* an existing grade.
C7_Witness ==
    /\ resp.route = DeleteGradeRoute
    /\ resp.status = 403
    /\ resp.id \in DOMAIN grades
    /\ sessions[resp.hdr.tok].userId \in DOMAIN students
    /\ students[sessions[resp.hdr.tok].userId].password = Hash("newpass456")

(***************************************************************************)
(* Grades: the admin enters, edits and deletes grades and schedule items    *)
(* for two students, who read their own data back.                          *)
(***************************************************************************)
GradesLoginBodies ==
    {[username |-> "admin", password |-> "admin123"],
     [username |-> "2024-0001", password |-> "student123"]}

GradeBodies ==
    {[studentId |-> 1, subjectCode |-> "IT101", grade |-> G300],
     [studentId |-> 2, subjectCode |-> "IT102", grade |-> <<"9">>, remarks |-> "Passed"]}

GradeUpdateBodies == {[grade |-> G325, remarks |-> "Passed"], [grade |-> <<>>]}

GradeRowIds == 1..MaxGrades

NextGrades ==
    \/ Deliver
    \/ \E body \in GradesLoginBodies : Idle /\ Login(body)
    \/ \E hdr \in GateHeaders, body \in GateStudentBodies : Idle /\ AdminCreateStudent(hdr, body)
    \/ \E hdr \in GateHeaders, body \in GradeBodies : Idle /\ AdminCreateGrade(hdr, body)
    \/ \E hdr \in GateHeaders, id \in GradeRowIds, body \in GradeUpdateBodies :
          Idle /\ AdminUpdateGrade(hdr, id, body)
    \/ \E hdr \in GateHeaders, id \in GradeRowIds : Idle /\ AdminDeleteGrade(hdr, id)
    \/ \E hdr \in GateHeaders : Idle /\ AdminCreateSchedule(hdr, GateScheduleBody)
    \/ \E hdr \in GateHeaders : Idle /\ StudentProfile(hdr)
    \/ \E hdr \in GateHeaders : Idle /\ StudentGrades(hdr)
    \/ \E hdr \in GateHeaders : Idle /\ StudentSchedule(hdr)
    \/ \E hdr \in GateHeaders : Idle /\ StudentStats(hdr)

SpecGrades == Init /\ [][NextGrades]_vars

\* The part of the store that is student u's own: the student's row and the
\* grade rows that carry the student's id.
OwnStudents(u) == [i \in DOMAIN students \cap {u} |-> students[i]]

OwnGrades(u) == [i \in {j \in DOMAIN grades : grades[j].studentId = u} |-> grades[i]]

\* What the profile, grades, schedule and stats routes answer to a session
\* of student u over given tables.
StudentView(st, gr, sch, u) ==
    <<ProfileStatus(st, u), ProfileOut(st, u), StudentGradesOut(gr, u),
      StudentScheduleOut(gr, sch, u),
      {StudentStatsOut(gr, u, first) : first \in FirstSemesters(gr, u)}>>

\* C8: what the profile, grades, schedule and stats routes answer to student
\* u is computed from u's own row, u's own grade rows and the schedule table
\* alone: the answers over the whole store are the answers over the store
\* with every other student's row and grades removed, so two stores that
\* agree on u's part answer alike. Every store is met between two requests.
C8_OwnDataOnly ==
    Idle =>
        \A u \in StudentRowIds :
            StudentView(students, grades, scheduleItems, u)
                = StudentView(OwnStudents(u), OwnGrades(u), scheduleItems, u)

\* A student is served their own non-empty grade list while the store also
\* holds a grade of another student.
C8_Witness ==
    /\ resp.route = "GET /api/student/grades"
    /\ resp.ran
    /\ resp.out.list # {}
    /\ \E i \in DOMAIN grades : grades[i].studentId # resp.uid

\* C10: every stored grade row has remarks "Passed" when its stored grade
\* parses to a number that is at most 3.0, and "Failed" otherwise.
C10_RemarksDerived ==
    \A i \in DOMAIN grades :
        grades[i].remarks =
            IF LessEqThree(parseFloat(grades[i].grade)) THEN "Passed" ELSE "Failed"

\* x is a number in [1.0, 5.0].
InGradeRange(x) ==
    /\ ~x.nan
    /\ Pow10(x.scale) <= Signed(x)
    /\ Signed(x) <= 5 * Pow10(x.scale)

\* C11: a grade create or update whose grade value does not parse as a number
\* in [1.0, 5.0] is answered with a client error and leaves the grades table
\* as it was.
C11_Step ==
    (/\ Idle
     /\ resp'.route \in {CreateGradeRoute, UpdateGradeRoute}
     /\ resp'.ran
     /\ Has(resp'.body, "grade")
     /\ ~InGradeRange(parseFloat(resp'.body.grade)))
    => (resp'.status \in 400..499 /\ grades' = grades)

C11_GradeRangeRejected == [][C11_Step]_vars

(***************************************************************************)
(* Stats: the admin enters grades with units for one student, who reads     *)
(* the totals back.                                                         *)
(***************************************************************************)
G125 == <<"1", ".", "2", "5">>

G150 == <<"1", ".", "5", "0">>

G100 == <<"1", ".", "0", "0">>

StatsGradeBodies ==
    {[studentId |-> 1, subjectCode |-> "IT101", grade |-> G125, units |-> 3],
     [studentId |-> 1, subjectCode |-> "IT102", grade |-> G150, units |-> 3],
     [studentId |-> 1, subjectCode |-> "IT103", grade |-> G100, units |-> 7]}

InitStats ==
    /\ now = 0
    /\ users = Put(<<>>, 1, DefaultAdmin)
    /\ students = Put(<<>>, 1, NewStudent(1, GateStudentBody))
    /\ sections = <<>>
    /\ grades = <<>>
    /\ scheduleItems = <<>>
    /\ announcements = <<>>
    /\ sessions = <<>>
    /\ seq = [token |-> 1, student |-> 2, section |-> 1, grade |-> 1,
              schedule |-> 1, announcement |-> 1]
    /\ resp = NoResponse
    /\ pending = <<>>
    /\ boot = Booted
    /\ screen = NoScreen

NextStats ==
    \/ Deliver
    \/ \E body \in GradesLoginBodies : Idle /\ Login(body)
    \/ \E hdr \in GateHeaders, body \in StatsGradeBodies : Idle /\ AdminCreateGrade(hdr, body)
    \/ \E hdr \in GateHeaders, id \in GradeRowIds : Idle /\ AdminDeleteGrade(hdr, id)
    \/ \E hdr \in GateHeaders : Idle /\ StudentStats(hdr)

SpecStats == InitStats /\ [][NextStats]_vars

\* The ids of the grade rows of student u.
GradeIdsOf(u) == {i \in DOMAIN grades : grades[i].studentId = u}

RECURSIVE UnitsOver(_)
UnitsOver(I) ==
    IF I = {} THEN 0 ELSE LET i == CHOOSE j \in I : TRUE IN grades[i].units + UnitsOver(I \ {i})

\* The stored grade of row i in hundredths (the grade texts carry at most
\* two decimals).
GradeHundredths(i) ==
    LET x == parseFloat(grades[i].grade) IN Signed(x) * Pow10(2 - x.scale)

RECURSIVE WeightedOver(_)
WeightedOver(I) ==
    IF I = {} THEN 0
    ELSE LET i == CHOOSE j \in I : TRUE
         IN  GradeHundredths(i) * grades[i].units + WeightedOver(I \ {i})

\* n/d rounded to an integer: the nearest one, and at a halfway point the
\* one above it or the even one.
Rounded(n, d) ==
    LET fl == n \div d
        r == n % d
    IN  IF 2 * r < d THEN {fl}
        ELSE IF 2 * r > d THEN {fl + 1}
        ELSE {fl + 1, IF fl % 2 = 0 THEN fl ELSE fl + 1}

\* C12: a stats response carries totalUnits equal to the sum of the units of
\* the student's grade rows and gwa equal to sum(grade * units) / totalUnits
\* rounded to two decimals; with no grade rows gwa is 0 and the request
\* succeeds.
C12_StatsArithmetic ==
    (resp.route = StatsRoute /\ resp.ran) =>
        LET I == GradeIdsOf(resp.uid)
            totalUnits == UnitsOver(I)
        IN  /\ resp.status = 200
            /\ resp.out.totalUnits = totalUnits
            /\ I = {} => resp.out.gwa = [nan |-> FALSE, cents |-> 0]
            /\ I # {} =>
                  /\ ~resp.out.gwa.nan
                  /\ resp.out.gwa.cents \in Rounded(WeightedOver(I), totalUnits)

(***************************************************************************)
(* Schedule: two students, schedule items for IT101 and IT103 and a grade   *)
(* of the second student in IT103 are in place; the admin enters and        *)
(* deletes grades of the first student and deletes schedule items, and the  *)
(* students read their schedules.                                           *)
(***************************************************************************)
ScheduleLoginBodies ==
    {[username |-> "admin", password |-> "admin123"],
     [username |-> "2024-0001", password |-> "student123"],
     [username |-> "2024-0003", password |-> "student123"]}

ScheduleGradeBodies ==
    {[studentId |-> 1, subjectCode |-> "IT101", grade |-> G125],
     [studentId |-> 1, subjectCode |-> "IT102", grade |-> G150]}

ScheduleRowIds == 1 .. (MaxScheduleItems + 1)

InitSchedule ==
    /\ now = 0
    /\ users = Put(<<>>, 1, DefaultAdmin)
    /\ students = Put(Put(<<>>, 1, NewStudent(1, GateStudentBody)),
                      2, NewStudent(2, [GateStudentBody EXCEPT !.studentId = "2024-0003"]))
    /\ sections = <<>>
    /\ grades = Put(<<>>, 1, NewGrade(1, [studentId |-> 2, subjectCode |-> "IT103", grade |-> G100]))
    /\ scheduleItems =
          Put(Put(<<>>, 1, NewScheduleItem(1, GateScheduleBody)),
              2, NewScheduleItem(2, [GateScheduleBody EXCEPT !.subjectCode = "IT103"]))
    /\ announcements = <<>>
    /\ sessions = <<>>
    /\ seq = [token |-> 1, student |-> 3, section |-> 1, grade |-> 2,
              schedule |-> 3, announcement |-> 1]
    /\ resp = NoResponse
    /\ pending = <<>>
    /\ boot = Booted
    /\ screen = NoScreen

NextSchedule ==
    \/ Deliver
    \/ \E body \in ScheduleLoginBodies : Idle /\ Login(body)
    \/ \E hdr \in GateHeaders, body \in ScheduleGradeBodies : Idle /\ AdminCreateGrade(hdr, body)
    \/ \E hdr \in GateHeaders, id \in GradeRowIds : Idle /\ AdminDeleteGrade(hdr, id)
    \/ \E hdr \in GateHeaders, id \in ScheduleRowIds : Idle /\ AdminDeleteSchedule(hdr, id)
    \/ \E hdr \in GateHeaders : Idle /\ StudentSchedule(hdr)

SpecSchedule == InitSchedule /\ [][NextSchedule]_vars

ScheduleRoute == "GET /api/student/schedule"

\* Student u has a grade row in subject c.
Graded(u, c) ==
    \E j \in DOMAIN grades : grades[j].studentId = u /\ grades[j].subjectCode = c

\* C13: the schedule a student is answered holds exactly the schedule items
\* whose subjectCode is the subjectCode of a grade row of that student.
C13_DerivedSchedule ==
    (resp.route = ScheduleRoute /\ resp.ran) =>
        /\ resp.status = 200
        /\ resp.out.list =
              {scheduleItems[i] : i \in {k \in DOMAIN scheduleItems :
                                            Graded(resp.uid, scheduleItems[k].subjectCode)}}

\* A student with a grade in IT101 is answered the IT101 item alone while the
\* store also holds the IT103 item and another student's grade in IT103.
C13_Witness ==
    /\ resp.route = ScheduleRoute
    /\ resp.ran
    /\ \E i \in DOMAIN scheduleItems :
          /\ resp.out.list = {scheduleItems[i]}
          /\ scheduleItems[i].subjectCode = "IT101"
    /\ \E k \in DOMAIN scheduleItems :
          /\ scheduleItems[k].subjectCode = "IT103"
          /\ \E j \in DOMAIN grades :
                grades[j].studentId # resp.uid /\ grades[j].subjectCode = "IT103"

\* C14: every student's sectionId is null or the id of an existing section row.
C14_SectionIdRefers ==
    \A i \in DOMAIN students :
        students[i].sectionId = Null \/ students[i].sectionId \in DOMAIN sections

(***************************************************************************)
(* Sections: two sections with one student each are in place; the admin     *)
(* creates, renames and deletes sections, moves students between them and   *)
(* edits student rows.                                                      *)
(***************************************************************************)
AdminLoginBodies == {[username |-> "admin", password |-> "admin123"]}

\* The ids of the two sections, and an id no section row ever had.
SectionIds == 1 .. (MaxSections + 2)

SectionBodies == {[name |-> "BSIT-1A"], [name |-> "BSIT-1C"]}

SectionUpdateBodies == {[name |-> "BSIT-1B"]}

AssignBodies == {[studentIds |-> {1, 2}], NoBody}

SectionStudentUpdateBodies == {[sectionId |-> MaxSections + 2], [firstName |-> "Bea"]}

InitSections ==
    /\ now = 0
    /\ users = Put(<<>>, 1, DefaultAdmin)
    /\ students =
          Put(Put(<<>>, 1, NewStudent(1, [GateStudentBody EXCEPT !.studentId = "2024-0001"] @@ [sectionId |-> 1])),
              2, NewStudent(2, [GateStudentBody EXCEPT !.studentId = "2024-0003"] @@ [sectionId |-> 2]))
    /\ sections = Put(Put(<<>>, 1, NewSection(1, GateSectionBody)),
                      2, NewSection(2, [name |-> "BSIT-1B"]))
    /\ grades = <<>>
    /\ scheduleItems = <<>>
    /\ announcements = <<>>
    /\ sessions = <<>>
    /\ seq = [token |-> 1, student |-> 3, section |-> 3, grade |-> 1,
              schedule |-> 1, announcement |-> 1]
    /\ resp = NoResponse
    /\ pending = <<>>
    /\ boot = Booted
    /\ screen = NoScreen

NextSections ==
    \/ Deliver
    \/ \E body \in AdminLoginBodies : Idle /\ Login(body)
    \/ \E hdr \in GateHeaders, body \in SectionBodies : Idle /\ AdminCreateSection(hdr, body)
    \/ \E hdr \in GateHeaders, id \in SectionIds, body \in SectionUpdateBodies :
          Idle /\ AdminUpdateSection(hdr, id, body)
    \/ \E hdr \in GateHeaders, id \in SectionIds : Idle /\ AdminDeleteSection(hdr, id)
    \/ \E hdr \in GateHeaders, id \in SectionIds, body \in AssignBodies :
          Idle /\ AdminAssignStudents(hdr, id, body)
    \/ \E hdr \in GateHeaders, id \in SectionIds, studentId \in StudentRowIds :
          Idle /\ AdminRemoveFromSection(hdr, id, studentId)
    \/ \E hdr \in GateHeaders, id \in StudentRowIds, body \in SectionStudentUpdateBodies :
          Idle /\ AdminUpdateStudent(hdr, id, body)

SpecSections == InitSections /\ [][NextSections]_vars

\* C15: the delete of an existing section succeeds; afterwards the section
\* row is gone, every student that was in it has sectionId null, no student
\* row is deleted and the students of other sections are as before.
C15_Step ==
    (/\ Idle
     /\ resp'.route = DeleteSectionRoute
     /\ resp'.ran
     /\ resp'.id \in DOMAIN sections)
    => /\ resp'.status = 200
       /\ resp'.id \notin DOMAIN sections'
       /\ DOMAIN students' = DOMAIN students
       /\ \A i \in DOMAIN students :
             IF students[i].sectionId = resp'.id
             THEN students'[i] = [students[i] EXCEPT !.sectionId = Null]
             ELSE students'[i] = students[i]

C15_DeleteSectionUnassigns == [][C15_Step]_vars

\* Section 1 has been deleted: its student is unassigned, the student of
\* section 2 is still in section 2.
C15_Witness ==
    /\ resp.route = DeleteSectionRoute
    /\ resp.status = 200
    /\ resp.id = 1
    /\ resp.id \notin DOMAIN sections
    /\ students[1].sectionId = Null
    /\ 2 \in DOMAIN sections
    /\ students[2].sectionId = 2

\* C16: the delete of a section id that has no row is answered 404 and
\* changes no table.
C16_Step ==
    (/\ Idle
     /\ resp'.route = DeleteSectionRoute
     /\ resp'.ran
     /\ resp'.id \notin DOMAIN sections)
    => (resp'.status = 404 /\ UNCHANGED tables)

C16_DeleteMissingSection == [][C16_Step]_vars

\* C18: a section create whose name is held by a section, and a section
\* update whose name is held by another section, are answered 409 and leave
\* the sections table as it was.
C18_Step ==
    (/\ Idle
     /\ resp'.ran
     /\ Has(resp'.body, "name")
     /\ \/ /\ resp'.route = CreateSectionRoute
           /\ \E i \in DOMAIN sections : sections[i].name = resp'.body.name
        \/ /\ resp'.route = UpdateSectionRoute
           /\ resp'.id \in DOMAIN sections
           /\ \E i \in DOMAIN sections \ {resp'.id} : sections[i].name = resp'.body.name)
    => (resp'.status = 409 /\ sections' = sections)

C18_DuplicateSectionName == [][C18_Step]_vars

\* C17: a student create whose studentId is the studentId of an existing
\* student is answered 409 and leaves the students table as it was, and
\* after a student create no two student rows share a studentId.
C17_Step ==
    /\ (/\ Idle
        /\ resp'.route = CreateStudentRoute
        /\ resp'.ran
        /\ \A f \in {"studentId", "firstName", "lastName", "course"} : Truthy(resp'.body, f)
        /\ \E i \in DOMAIN students : students[i].studentId = resp'.body.studentId)
       => (resp'.status = 409 /\ students' = students)
    /\ (Idle /\ resp'.route = CreateStudentRoute)
       => \A i, j \in DOMAIN students' :
             students'[i].studentId = students'[j].studentId => i = j

C17_UniqueStudentId == [][C17_Step]_vars

\* A create with the studentId of a stored student has been answered 409
\* while the table has room for another row.
C17_Witness ==
    /\ resp.route = CreateStudentRoute
    /\ resp.status = 409
    /\ \E i \in DOMAIN students : students[i].studentId = resp.body.studentId
    /\ seq.student <= MaxStudents

\* The fields of row that the body does not carry are the same in after.
AbsentKept(row, after, body, derived) ==
    \A f \in DOMAIN row \ (DOMAIN body \cup derived) : after[f] = row[f]

\* C19: an update that succeeds leaves every field that is absent from the
\* request body at its stored value (remarks, which the grade update derives
\* from a grade it is given, aside); this holds for the sectionId of a
\* student updated with a body that carries no sectionId.
C19_Step ==
    (Idle /\ resp'.ran /\ resp'.status = 200)
    => /\ resp'.route = UpdateStudentRoute
          => AbsentKept(students[resp'.id], students'[resp'.id], resp'.body, {})
       /\ resp'.route = UpdateSectionRoute
          => AbsentKept(sections[resp'.id], sections'[resp'.id], resp'.body, {})
       /\ resp'.route = UpdateGradeRoute
          => AbsentKept(grades[resp'.id], grades'[resp'.id], resp'.body,
                        IF Has(resp'.body, "grade") THEN {"remarks"} ELSE {})
       /\ resp'.route = UpdateScheduleRoute
          => AbsentKept(scheduleItems[resp'.id], scheduleItems'[resp'.id], resp'.body, {})
       /\ resp'.route = UpdateAnnouncementRoute
          => AbsentKept(announcements[resp'.id], announcements'[resp'.id], resp'.body, {})

C19_AbsentFieldsKept == [][C19_Step]_vars

(***************************************************************************)
(* Accounts: the admin and one student, each logged in, change their own    *)
(* username, student id and password, giving no, a wrong or the right       *)
(* current password.                                                        *)
(***************************************************************************)
AdminAccountBodies ==
    {[newUsername |-> "root"],
     [currentPassword |-> "wrong000", newUsername |-> "root"],
     [currentPassword |-> "admin123", newPassword |-> "newpass456"],
     [currentPassword |-> "admin123", newUsername |-> "root"],
     [currentPassword |-> "admin123"]}

ChangePasswordBodies ==
    {[newPassword |-> "newpass456"],
     [currentPassword |-> "wrong000", newPassword |-> "newpass456"],
     [currentPassword |-> "student123", newPassword |-> "newpass456"]}

StudentAccountBodies ==
    {[newStudentId |-> "2024-0002"],
     [currentPassword |-> "wrong000", newStudentId |-> "2024-0002"],
     [currentPassword |-> "student123", newStudentId |-> "2024-0002"]}

NextAccount ==
    \/ Deliver
    \/ \E body \in GradesLoginBodies : Idle /\ Login(body)
    \/ \E hdr \in GateHeaders, body \in AdminAccountBodies : Idle /\ AdminAccount(hdr, body)
    \/ \E hdr \in GateHeaders, body \in ChangePasswordBodies :
          Idle /\ StudentChangePassword(hdr, body)
    \/ \E hdr \in GateHeaders, body \in StudentAccountBodies : Idle /\ StudentAccount(hdr, body)
    \/ \E hdr \in GateHeaders, id \in StudentRowIds : Idle /\ AdminDeleteStudent(hdr, id)
    \/ Idle /\ Restart

SpecAccount == InitStats /\ [][NextAccount]_vars

AccountRoutes == {AdminAccountRoute, ChangePasswordRoute, StudentAccountRoute}

\* The stored rows of the user of session s: an admin's row in users, a
\* student's row in students.
SessionUser(s) ==
    IF s.role = "admin" THEN {users[i] : i \in DOMAIN users \cap {s.userId}}
    ELSE {students[i] : i \in DOMAIN students \cap {s.userId}}

\* C20: a credential update that reaches its handler for a stored user with
\* no currentPassword, or one that does not match the user's stored hash, is
\* answered 400 or 401 and changes no table.
C20_Step ==
    (/\ Idle
     /\ resp'.route \in AccountRoutes
     /\ resp'.ran
     /\ \E row \in SessionUser(sessions[resp'.hdr.tok]) :
           \/ ~Has(resp'.body, "currentPassword")
           \/ row.password # Hash(resp'.body.currentPassword))
    => (resp'.status \in {400, 401} /\ UNCHANGED tables)

C20_CurrentPasswordRequired == [][C20_Step]_vars

\* The student's old password, given after the password was changed, has
\* been refused and the student row still carries the new hash.
C20_Witness ==
    /\ resp.route = StudentAccountRoute
    /\ resp.ran
    /\ resp.status = 401
    /\ Has(resp.body, "currentPassword")
    /\ resp.body.currentPassword = "student123"
    /\ students[resp.uid].password = Hash("newpass456")
    /\ students[resp.uid].studentId = "2024-0001"

\* C21: every stored session refers to a stored user of its role: an admin
\* session to a row of users, a student session to a row of students.
C21_SessionUserExists ==
    \A t \in DOMAIN sessions :
        IF sessions[t].role = "admin" THEN sessions[t].userId \in DOMAIN users
        ELSE sessions[t].userId \in DOMAIN students

(***************************************************************************)
(* Sweep: users log in while the clock advances and the hourly timer        *)
(* fires; no request presents a token, so a session row leaves the table    *)
(* through the timer only.                                                  *)
(***************************************************************************)
NextSweep ==
    \/ Deliver
    \/ Idle /\ Tick
    \/ Idle /\ Sweep
    \/ \E body \in LoginBodies : Idle /\ Login(body)

SpecSweep == Init /\ [][NextSweep]_vars

\* C22: a step of the timer (no request is being answered, the clock stands)
\* removes the session rows with expiresAt < now and no others, leaves the
\* remaining rows as they were and changes no other table.
C22_Step ==
    (Idle /\ Idle' /\ now' = now)
    => /\ DOMAIN sessions' = {t \in DOMAIN sessions : sessions[t].expiresAt >= now}
       /\ \A t \in DOMAIN sessions' : sessions'[t] = sessions[t]
       /\ UNCHANGED tables

C22_SweepExact == [][C22_Step]_vars

\* The timer has removed the session that expired and kept the one that
\* expires at this instant.
C22_Witness ==
    /\ Idle
    /\ \E t \in Issued : t \notin DOMAIN sessions
    /\ \E t \in DOMAIN sessions : sessions[t].expiresAt = now

\* C23: a restart (a step taken between two requests that answers none)
\* leaves the users table as it is whenever an admin row exists: it adds no
\* second admin row and modifies no existing one.
C23_Step ==
    (Idle /\ Idle' /\ DOMAIN users # {}) => users' = users

C23_SeedOnlyWhenAbsent == [][C23_Step]_vars

(***************************************************************************)
(* Handlers that overlap. A handler that awaits a storage call gives way    *)
(* to the other requests in service; pending holds, per request, where the  *)
(* handler stands (pc), its local variables and, once it has answered       *)
(* (pc = "done"), the status it sent.                                       *)
(***************************************************************************)
InService(r) == r \in DOMAIN pending

Answered(r) == InService(r) /\ pending[r].pc = "done"

\* DELETE /api/admin/sections/:id up to the end of the first statement of
\* storage.deleteSection: the members of the section are unassigned.
DeleteSectionStart(hdr, id) ==
    LET g == requireAdminToken(hdr) IN
    /\ ~InService("delete")
    /\ sessions' = g.sessions
    /\ IF g.status # 0
       THEN /\ pending' = Put(pending, "delete", [pc |-> "done", id |-> id, status |-> g.status])
            /\ UNCHANGED students
       ELSE /\ students' = UnassignSection(students, id)
            /\ pending' = Put(pending, "delete", [pc |-> "delete", id |-> id, status |-> 0])
    /\ UNCHANGED <<users, sections, grades, scheduleItems, announcements, now, seq, resp, boot, screen>>

\* The second statement of storage.deleteSection and the response.
DeleteSectionFinish ==
    /\ InService("delete")
    /\ pending["delete"].pc = "delete"
    /\ LET id == pending["delete"].id IN
       /\ sections' = Drop(sections, {id})
       /\ pending' = [pending EXCEPT !["delete"].pc = "done",
                                     !["delete"].status =
                                         IF getSectionById(id) = {} THEN 404 ELSE 200]
    /\ UNCHANGED <<users, students, grades, scheduleItems, announcements,
                   sessions, now, seq, resp, boot, screen>>

\* POST /api/admin/sections/:id/assign up to the loop: the section lookup
\* and the check of the body.
AssignStart(hdr, id, body) ==
    LET g == requireAdminToken(hdr)
        Answer(status) == [pc |-> "done", id |-> id, todo |-> {}, status |-> status]
    IN  /\ ~InService("assign")
        /\ sessions' = g.sessions
        /\ pending' = Put(pending, "assign",
              IF g.status # 0 THEN Answer(g.status)
              ELSE IF getSectionById(id) = {} THEN Answer(404)
              ELSE IF ~IsArray(body, "studentIds") THEN Answer(400)
              ELSE [pc |-> "update", id |-> id, todo |-> body.studentIds, status |-> 0])
        /\ UNCHANGED <<tables, now, seq, resp, boot, screen>>

\* One turn of the loop: await storage.updateStudent(sid, { sectionId }).
AssignUpdate ==
    /\ InService("assign")
    /\ pending["assign"].pc = "update"
    /\ \E sid \in pending["assign"].todo :
          /\ students' = updateStudent(students, sid, [sectionId |-> pending["assign"].id])
          /\ pending' = [pending EXCEPT !["assign"].todo = @ \ {sid}]
    /\ UNCHANGED <<users, sections, grades, scheduleItems, announcements,
                   sessions, now, seq, resp, boot, screen>>

\* The loop has ended: the response.
AssignFinish ==
    /\ InService("assign")
    /\ pending["assign"].pc = "update"
    /\ pending["assign"].todo = {}
    /\ pending' = [pending EXCEPT !["assign"].pc = "done", !["assign"].status = 200]
    /\ UNCHANGED <<tables, sessions, now, seq, resp, boot, screen>>

(***************************************************************************)
(* Assign race: with two sections and two students in place, the admin      *)
(* sends one section delete and one assign, which the server handles with   *)
(* their storage calls interleaved.                                         *)
(***************************************************************************)
RaceAssignBodies == {[studentIds |-> {1, 2}], [studentIds |-> {2}]}

NextAssignRace ==
    \/ Deliver
    \/ \E body \in AdminLoginBodies : Idle /\ Login(body)
    \/ \E hdr \in GateHeaders, id \in SectionIds : DeleteSectionStart(hdr, id)
    \/ DeleteSectionFinish
    \/ \E hdr \in GateHeaders, id \in SectionIds, body \in RaceAssignBodies :
          AssignStart(hdr, id, body)
    \/ AssignUpdate
    \/ AssignFinish

SpecAssignRace == InitSections /\ [][NextAssignRace]_vars

\* C24: once a section delete and an assign for the same section have both
\* been answered, every student's sectionId is null or the id of a section
\* that exists.
C24_NoDanglingAfterRace ==
    (/\ Answered("delete")
     /\ Answered("assign")
     /\ pending["delete"].id = pending["assign"].id)
    => \A i \in DOMAIN students :
          students[i].sectionId = Null \/ students[i].sectionId \in DOMAIN sections

\* POST /api/admin/students up to the existence lookup; a request that
\* passes it goes on to hash the password and insert.
CreateStudentStart(r, hdr, body) ==
    LET g == requireAdminToken(hdr)
        Answer(status) == [pc |-> "done", body |-> body, passed |-> FALSE, status |-> status]
    IN  /\ ~InService(r)
        /\ sessions' = g.sessions
        /\ pending' = Put(pending, r,
              IF g.status # 0 THEN Answer(g.status)
              ELSE IF ~Truthy(body, "studentId") \/ ~Truthy(body, "firstName")
                      \/ ~Truthy(body, "lastName") \/ ~Truthy(body, "course")
              THEN Answer(400)
              ELSE IF getStudentByStudentId(body.studentId) # {} THEN Answer(409)
              ELSE [pc |-> "insert", body |-> body, passed |-> TRUE, status |-> 0])
        /\ UNCHANGED <<tables, now, seq, resp, boot, screen>>

\* storage.createStudent and the response. students.student_id is unique:
\* the insert of a studentId that a row holds by now throws, no row is
\* written and the request ends in the error path.
CreateStudentInsert(r) ==
    /\ InService(r)
    /\ pending[r].pc = "insert"
    /\ IF getStudentByStudentId(pending[r].body.studentId) # {}
       THEN /\ pending' = [pending EXCEPT ![r].pc = "done", ![r].status = 500]
            /\ UNCHANGED <<students, seq>>
       ELSE LET student == NewStudent(seq.student, pending[r].body) IN
            /\ seq.student <= MaxStudents
            /\ students' = Put(students, student.id, student)
            /\ seq' = [seq EXCEPT !.student = @ + 1]
            /\ pending' = [pending EXCEPT ![r].pc = "done", ![r].status = 201]
    /\ UNCHANGED <<users, sections, grades, scheduleItems, announcements,
                   sessions, now, resp, boot, screen>>

(***************************************************************************)
(* Create race: with one student in place, the admin sends two student      *)
(* creates, which the server handles with their storage calls interleaved.  *)
(***************************************************************************)
CreateSlots == {"first", "second"}

RaceStudentBodies ==
    {[GateStudentBody EXCEPT !.studentId = i] : i \in {"2024-0001", "2024-0005"}}

NextCreateRace ==
    \/ Deliver
    \/ \E body \in AdminLoginBodies : Idle /\ Login(body)
    \/ \E r \in CreateSlots, hdr \in GateHeaders, body \in RaceStudentBodies :
          CreateStudentStart(r, hdr, body)
    \/ \E r \in CreateSlots : CreateStudentInsert(r)

SpecCreateRace == InitStats /\ [][NextCreateRace]_vars

\* C25: when two creates with the same studentId have both passed the
\* existence lookup (each lookup ran before the other's insert) and both
\* have been answered, one row carries that studentId, one request was
\* answered 201 and the other 409.
C25_ConcurrentCreate ==
    (/\ Answered("first")
     /\ Answered("second")
     /\ pending["first"].passed
     /\ pending["second"].passed
     /\ pending["first"].body.studentId = pending["second"].body.studentId)
    => /\ Cardinality({i \in DOMAIN students :
                          students[i].studentId = pending["first"].body.studentId}) = 1
       /\ {pending["first"].status, pending["second"].status} = {201, 409}

(***************************************************************************)
(* Serverless entry point (api/index.ts). boot is the module state of one   *)
(* function instance: the initialized flag, and how many times setupApp     *)
(* was started and has completed. An invocation awaiting setupApp stands    *)
(* at pc = "setupApp"; one whose request was passed to app is "done" and    *)
(* records in ready whether a setupApp had completed by then.               *)
(***************************************************************************)
\* handler(req, res) up to its first await, or to app(req, res) when the
\* flag is set. setupApp registers the middleware at once and suspends in
\* registerRoutes.
InvokeHandler(r) ==
    /\ ~InService(r)
    /\ IF ~boot.initialized
       THEN /\ boot' = [boot EXCEPT !.setups = @ + 1]
            /\ pending' = Put(pending, r, [pc |-> "setupApp", ready |-> FALSE])
       ELSE /\ boot' = boot
            /\ pending' = Put(pending, r, [pc |-> "done", ready |-> boot.completed >= 1])
    /\ UNCHANGED <<tables, sessions, now, seq, resp, screen>>

\* await setupApp() returns: registerRoutes has seeded the admin and
\* registered the timer and the routes; the flag is set and the request is
\* passed to app.
SetupAppDone(r) ==
    /\ InService(r)
    /\ pending[r].pc = "setupApp"
    /\ users' = upsertAdmin(DefaultAdmin)
    /\ boot' = [boot EXCEPT !.initialized = TRUE, !.completed = @ + 1]
    /\ pending' = [pending EXCEPT ![r].pc = "done", ![r].ready = TRUE]
    /\ UNCHANGED <<students, sections, grades, scheduleItems, announcements,
                   sessions, now, seq, resp, screen>>

Invocations == {"first", "second"}

\* A new function instance on an empty database: nothing is set up.
InitCold ==
    /\ users = <<>>
    /\ students = <<>>
    /\ sections = <<>>
    /\ grades = <<>>
    /\ scheduleItems = <<>>
    /\ announcements = <<>>
    /\ sessions = <<>>
    /\ now = 0
    /\ seq = [token |-> 1, student |-> 1, section |-> 1, grade |-> 1,
              schedule |-> 1, announcement |-> 1]
    /\ resp = NoResponse
    /\ pending = <<>>
    /\ boot = [initialized |-> FALSE, setups |-> 0, completed |-> 0]
    /\ screen = NoScreen

\* Two invocations arrive at a cold instance; once the flag is set the
\* instance serves logins while the clock advances.
NextCold ==
    \/ Deliver
    \/ \E r \in Invocations : InvokeHandler(r)
    \/ \E r \in Invocations : SetupAppDone(r)
    \/ boot.initialized /\ Idle /\ Tick
    \/ \E body \in LoginBodies : boot.initialized /\ Idle /\ Login(body)

SpecCold == InitCold /\ [][NextCold]_vars

\* C26: setupApp is started at most once, and every request passed to app
\* was passed after a setupApp had completed.
C26_SetupOnce ==
    /\ boot.setups <= 1
    /\ \A r \in DOMAIN pending : pending[r].pc = "done" => pending[r].ready

\* C27: no response of the admin account route or of the student account
\* route carries a password hash: a user object in the response has no
\* password field.
C27_AccountResponsesSanitized ==
    resp.route \in {AdminAccountRoute, StudentAccountRoute}
        => (Has(resp.out, "user") => ~Has(resp.out.user, "password"))

(***************************************************************************)
(* Student account: two students are in place; they log in and change       *)
(* their student id and password, with requests of which one part is        *)
(* acceptable and the other is not.                                         *)
(***************************************************************************)
StudentAccountRaceBodies ==
    {[currentPassword |-> "student123", newStudentId |-> "2024-0003",
      newPassword |-> "newpass456"],
     [currentPassword |-> "student123", newStudentId |-> "2024-0002",
      newPassword |-> "short"],
     [currentPassword |-> "wrong000", newStudentId |-> "2024-0002",
      newPassword |-> "newpass456"],
     [currentPassword |-> "student123"],
     [currentPassword |-> "student123", newStudentId |-> "2024-0002",
      newPassword |-> "newpass456"]}

NextStudentAccount ==
    \/ Deliver
    \/ \E body \in GateLoginBodies : Idle /\ Login(body)
    \/ \E hdr \in GateHeaders, body \in StudentAccountRaceBodies :
          Idle /\ StudentAccount(hdr, body)

SpecStudentAccount == InitGate /\ [][NextStudentAccount]_vars

\* C28: a student account update that is answered with anything but success
\* changes no student row (and no other table).
C28_Step ==
    (Idle /\ resp'.route = StudentAccountRoute /\ resp'.status # 200)
    => UNCHANGED tables

C28_AllOrNothing == [][C28_Step]_vars

\* A request with a free new studentId and a new password that is too short
\* was answered 400, and the student still has the old studentId.
C28_Witness ==
    /\ resp.route = StudentAccountRoute
    /\ resp.ran
    /\ resp.status = 400
    /\ Has(resp.body, "newPassword")
    /\ Len(resp.body.newPassword) < MinPasswordLength
    /\ Has(resp.body, "newStudentId")
    /\ \A i \in DOMAIN students : students[i].studentId # resp.body.newStudentId
    /\ students[resp.uid].password = Hash("student123")

\* C29: DELETE /api/admin/sections/:id/students/:studentId leaves unchanged
\* the row of every student who is not currently assigned to section :id.
C29_Step ==
    (Idle /\ resp'.route = RemoveFromSectionRoute)
    => \A i \in DOMAIN students :
          students[i].sectionId # resp'.id
              => (i \in DOMAIN students' /\ students'[i] = students[i])

C29_RemoveOnlyFromNamedSection == [][C29_Step]_vars

(***************************************************************************)
(* Schedule screens (app/(admin)/schedule.tsx, app/(tabs)/schedule.tsx).    *)
(* A day text is a sequence of tokens: a weekday name (which holds neither  *)
(* a comma nor white space) is one token, "," and " " are the others.       *)
(* screen.days is the form's day selection, screen.items the list both      *)
(* screens hold after a refetch (the server stores and returns day as       *)
(* sent), screen.filterDay the admin filter, screen.selectedDay the         *)
(* student screen's tab.                                                    *)
(***************************************************************************)
MaxFormDays == 2

Comma == ","

Space == " "

\* Array.prototype.join(', ')
RECURSIVE join(_)
join(days) ==
    IF days = <<>> THEN <<>>
    ELSE IF Len(days) = 1 THEN <<days[1]>>
    ELSE <<days[1], Comma, Space>> \o join(Tail(days))

\* String.prototype.split(',')
RECURSIVE split(_)
split(text) ==
    IF \A i \in DOMAIN text : text[i] # Comma THEN <<text>>
    ELSE LET k == CHOOSE i \in DOMAIN text :
                     text[i] = Comma /\ \A j \in 1 .. (i - 1) : text[j] # Comma
         IN  <<SubSeq(text, 1, k - 1)>> \o split(SubSeq(text, k + 1, Len(text)))

\* String.prototype.trim()
RECURSIVE trim(_)
trim(text) ==
    IF text = <<>> THEN text
    ELSE IF Head(text) = Space THEN trim(Tail(text))
    ELSE IF text[Len(text)] = Space THEN trim(SubSeq(text, 1, Len(text) - 1))
    ELSE text

\* day.split(',').map(d => d.trim()).filter(Boolean)
FormDays(day) ==
    LET parts == split(day) IN
    SelectSeq([i \in DOMAIN parts |-> trim(parts[i])], LAMBDA t : t # <<>>)

\* The day chip of the form: f.days.includes(day) ? f.days.filter(...) : [...f.days, day]
ToggleDay(day) ==
    /\ \/ \E i \in DOMAIN screen.days : screen.days[i] = day
       \/ Len(screen.days) < MaxFormDays
    /\ screen' = [screen EXCEPT !.days =
                     IF \E i \in DOMAIN @ : @[i] = day
                     THEN SelectSeq(@, LAMBDA d : d # day)
                     ELSE Append(@, day)]
    /\ UNCHANGED <<tables, sessions, now, seq, resp, pending, boot>>

\* handleSave of a new item: no day selected is an error message; else the
\* payload carries day = days.join(', '), the lists are refetched and the
\* form closes.
handleSave ==
    /\ Cardinality(screen.items) < MaxScheduleItems
    /\ screen' = IF Len(screen.days) = 0 THEN screen
                 ELSE [screen EXCEPT
                          !.items = @ \cup {[id |-> Cardinality(@) + 1,
                                             subjectCode |-> "IT101",
                                             day |-> join(screen.days)]},
                          !.days = <<>>]
    /\ UNCHANGED <<tables, sessions, now, seq, resp, pending, boot>>

\* setFilterDay(filterDay === day ? "" : day)
SetFilterDay(day) ==
    /\ screen' = [screen EXCEPT !.filterDay = IF @ = day THEN "" ELSE day]
    /\ UNCHANGED <<tables, sessions, now, seq, resp, pending, boot>>

SetSelectedDay(day) ==
    /\ screen' = [screen EXCEPT !.selectedDay = day]
    /\ UNCHANGED <<tables, sessions, now, seq, resp, pending, boot>>

\* Admin screen: schedule.filter(s => s.day && s.day.split(',').some(d => d.trim() === filterDay))
displayed(items, filterDay) ==
    IF filterDay # ""
    THEN {s \in items : /\ s.day # <<>>
                        /\ \E i \in DOMAIN split(s.day) :
                              trim(split(s.day)[i]) = <<filterDay>>}
    ELSE items

\* Student screen: allItems.filter(item => item.day === selectedDay)
schedule(allItems, selectedDay) == {item \in allItems : item.day = <<selectedDay>>}

getCountForDay(allItems, day) == Cardinality({item \in allItems : item.day = <<day>>})

InitScreens ==
    /\ now = 0
    /\ users = Put(<<>>, 1, DefaultAdmin)
    /\ students = <<>>
    /\ sections = <<>>
    /\ grades = <<>>
    /\ scheduleItems = <<>>
    /\ announcements = <<>>
    /\ sessions = <<>>
    /\ seq = [token |-> 1, student |-> 1, section |-> 1, grade |-> 1,
              schedule |-> 1, announcement |-> 1]
    /\ resp = NoResponse
    /\ pending = <<>>
    /\ boot = Booted
    /\ screen = NoScreen

NextScreens ==
    \/ \E i \in DOMAIN DAYS : ToggleDay(DAYS[i])
    \/ handleSave
    \/ \E i \in DOMAIN DAYS : SetFilterDay(DAYS[i])
    \/ \E i \in DOMAIN DAYS : SetSelectedDay(DAYS[i])

SpecScreens == InitScreens /\ [][NextScreens]_vars

\* C30: for every item saved by the admin form and every weekday d, the
\* student screen lists (and counts) the item under d exactly when the admin
\* day filter for d lists it, that is exactly when d is one of its days.
C30_ScreensAgree ==
    \A item \in screen.items : \A k \in DOMAIN DAYS :
        LET d == DAYS[k]
            days == FormDays(item.day)
            isDay == \E i \in DOMAIN days : days[i] = <<d>>
        IN  /\ (item \in displayed(screen.items, d)) <=> isDay
            /\ (item \in schedule(screen.items, d)) <=> isDay
            /\ getCountForDay(screen.items, d) = Cardinality(displayed(screen.items, d))
====
